------------------------------ MODULE Sessions ------------------------------
(***************************************************************************)
(* Signing in with a code, and the refresh tokens of a session.            *)
(*                                                                         *)
(* Passengers sign in with a code sent to their phone, the other users     *)
(* with a password or a code sent to their address.  Both kinds keep codes *)
(* and refresh tokens in tables of the same shape, with statements that    *)
(* differ; a request is a job that runs one statement after the other.     *)
(***************************************************************************)
EXTENDS Naturals, Sequences, FiniteSets, Functions

CONSTANTS
  User, Passenger,   \* the accounts of the two kinds
  Token, Proc, None,
  MaxAttempts,       \* max_attempts
  MaxCodes           \* bound: codes sent to all accounts

Account == User \union Passenger

\* A code that was sent, and a refresh token with the session it belongs to.
Code == [attempts: Nat, used: BOOLEAN, expired: BOOLEAN]
RefreshToken == [account: Account, session: Token, code: Nat, live: BOOLEAN]

ASSUME SessionsAssumption ==
  /\ User \cap Passenger = {} /\ None \notin Token \union RefreshToken
  /\ MaxAttempts \in Nat \ {0} /\ MaxCodes \in Nat
  /\ IsFiniteSet(User) /\ IsFiniteSet(Passenger) /\ IsFiniteSet(Proc)

VARIABLES
  active,  \* the accounts that are active
  codes,   \* user_verification_codes, passenger_auth_codes: each account's by created_at
  tokens,  \* refresh_tokens, passenger_refresh_tokens
  jobs     \* what the requests in progress have read

vars == <<active, codes, tokens, jobs>>

Idle == [op |-> "idle"]

Issued(t) == tokens[t] # None

\* Rows have the columns' values, and wrong codes are counted: more than
\* max_attempts only if the requests that count them read the code together.
SessTypeOK ==
  /\ active \subseteq Account
  /\ \A a \in Account :
       /\ codes[a] \in Seq(Code) /\ Len(codes[a]) <= MaxCodes
       /\ \A n \in DOMAIN codes[a] : codes[a][n].attempts < MaxAttempts + Cardinality(Proc)
  /\ \A t \in Token : Issued(t) => tokens[t] \in RefreshToken
  /\ \A p \in Proc : jobs[p].op \in {"idle", "request", "wrong", "admit", "use", "store", "rotate"}

Init ==
  /\ active = Account
  /\ codes = [a \in Account |-> <<>>]
  /\ tokens = [t \in Token |-> None]
  /\ jobs = [p \in Proc |-> Idle]

\* Another code may be sent (MaxCodes is a bound of the model).
MoreCodes == SumFunction([a \in Account |-> Len(codes[a])]) < MaxCodes

Begin(p, job) == jobs[p] = Idle /\ jobs' = [jobs EXCEPT ![p] = job]
Continue(p, op) == jobs' = [jobs EXCEPT ![p].op = op]
End(p) == jobs' = [jobs EXCEPT ![p] = Idle]

-----------------------------------------------------------------------------
(* Codes.                                                                  *)

NewCode == [attempts |-> 0, used |-> FALSE, expired |-> FALSE]

\* A passenger's code is sent: the codes before it are invalidated,
InvalidateActiveByPhone(p, a) ==
  /\ a \in Passenger /\ MoreCodes
  /\ codes' = [codes EXCEPT ![a] = [n \in DOMAIN @ |-> IF @[n].expired THEN @[n] ELSE [@[n] EXCEPT !.used = TRUE]]]
  /\ Begin(p, [op |-> "request", a |-> a])
  /\ UNCHANGED <<active, tokens>>

\* and it is stored by another statement.
CreatePassengerCode(p) ==
  /\ jobs[p].op = "request" /\ MoreCodes
  /\ codes' = [codes EXCEPT ![jobs[p].a] = Append(@, NewCode)]
  /\ End(p)
  /\ UNCHANGED <<active, tokens>>

\* A user's code is sent, and those before it stay as they are.
SendEmailCode(a) ==
  /\ a \in User \intersect active /\ MoreCodes
  /\ codes' = [codes EXCEPT ![a] = Append(@, NewCode)]
  /\ UNCHANGED <<active, tokens, jobs>>

CodeExpires(a, n) ==
  /\ n \in DOMAIN codes[a] /\ ~codes[a][n].expired
  /\ codes' = [codes EXCEPT ![a][n].expired = TRUE]
  /\ UNCHANGED <<active, tokens, jobs>>

\* Codes with any number of wrong attempts.
Unused(a) == {n \in DOMAIN codes[a] : ~codes[a][n].used}

\* GetLatestActiveCode: consumed_at IS NULL AND attempts < max_attempts.  A
\* passenger's latest code is checked for the same after it is read.
ActiveCodes(a) == {n \in DOMAIN codes[a] : ~codes[a][n].used /\ codes[a][n].attempts < MaxAttempts}

\* The code a request is compared with, if any.
Latest(a) ==
  LET from == IF a \in User THEN ActiveCodes(a) ELSE DOMAIN codes[a]
  IN {n \in from : (\A m \in from : m <= n) /\ n \in ActiveCodes(a) /\ ~codes[a][n].expired}

\* What a right code leads to: a passenger is looked up after it only.
Matched(a) == IF a \in User THEN "use" ELSE "admit"

\* VerifyCode and ConfirmCode: the code is read and compared, for a user who is
\* active, and for a passenger whether active or not.
CheckCode(p, a, right) ==
  /\ a \in User => a \in active
  /\ \E n \in Latest(a) : Begin(p, [op |-> IF right THEN Matched(a) ELSE "wrong", a |-> a, n |-> n])
  /\ UNCHANGED <<active, codes, tokens>>

\* ConfirmCode goes on for a passenger who is active, or new.
AdmitPassenger(p) ==
  /\ jobs[p].op = "admit"
  /\ IF jobs[p].a \in active THEN Continue(p, "use") ELSE End(p)
  /\ UNCHANGED <<active, codes, tokens>>

IncrementAttempts(p) ==
  /\ jobs[p].op = "wrong"
  /\ LET a == jobs[p].a
         n == jobs[p].n
     IN codes' = IF a \in User /\ codes[a][n].used THEN codes ELSE [codes EXCEPT ![a][n].attempts = @ + 1]
  /\ End(p)
  /\ UNCHANGED <<active, tokens>>

\* A user's code is consumed like a passenger's.
ConsumableAnyway(a, n) == TRUE

\* ConsumeCode updates a code that is not consumed, MarkUsed any code.
Consumable(a, n) == a \in Passenger \/ ~codes[a][n].used

UseCode(p) ==
  /\ jobs[p].op = "use"
  /\ LET a == jobs[p].a
         n == jobs[p].n
     IN \/ /\ Consumable(a, n)
           /\ codes' = [codes EXCEPT ![a][n].used = TRUE]
           /\ Continue(p, "store")
        \/ ~Consumable(a, n) /\ UNCHANGED codes /\ End(p)
  /\ UNCHANGED <<active, tokens>>

-----------------------------------------------------------------------------
(* Tokens.  A session is named by its first token.                         *)

\* The session of a code, or of a password when the code is 0.
StoreRefreshToken(p, t) ==
  /\ jobs[p].op = "store" /\ ~Issued(t)
  /\ tokens' = [tokens EXCEPT ![t] = [account |-> jobs[p].a, session |-> t, code |-> jobs[p].n, live |-> TRUE]]
  /\ End(p)
  /\ UNCHANGED <<active, codes>>

\* StartLogin: a user signs in with the password.
StartLogin(p, a) ==
  /\ a \in User \intersect active
  /\ Begin(p, [op |-> "store", a |-> a, n |-> 0])
  /\ UNCHANGED <<active, codes, tokens>>

\* Refresh reads the account of a token the client has, and makes a new pair.
RefreshBegin(p, t) ==
  /\ Issued(t) /\ tokens[t].account \in active
  /\ Begin(p, [op |-> "rotate", t |-> t])
  /\ UNCHANGED <<active, codes, tokens>>

\* Without revoked_at IS NULL.
RotatableAnyway(t) == Issued(t)

Rotatable(t) == tokens[t].live

\* One transaction: the old token is revoked and the new one stored, or neither.
RotateRefreshToken(p, new) ==
  /\ jobs[p].op = "rotate" /\ ~Issued(new)
  /\ LET old == jobs[p].t
     IN tokens' = IF Rotatable(old)
                  THEN [tokens EXCEPT ![old].live = FALSE, ![new] = [tokens[old] EXCEPT !.live = TRUE]]
                  ELSE tokens
  /\ End(p)
  /\ UNCHANGED <<active, codes>>

\* Logout, or the token's time has passed.
RevokeRefreshToken(t) ==
  /\ Issued(t) /\ tokens[t].live
  /\ tokens' = [tokens EXCEPT ![t].live = FALSE]
  /\ UNCHANGED <<active, codes, jobs>>

\* An account is blocked or unblocked.
SetActive(a) ==
  /\ active' = IF a \in active THEN active \ {a} ELSE active \union {a}
  /\ UNCHANGED <<codes, tokens, jobs>>

Next ==
  \/ \E a \in Account : SendEmailCode(a) \/ SetActive(a) \/ \E n \in 1..MaxCodes : CodeExpires(a, n)
  \/ \E p \in Proc, a \in Account :
       InvalidateActiveByPhone(p, a) \/ StartLogin(p, a) \/ \E right \in BOOLEAN : CheckCode(p, a, right)
  \/ \E p \in Proc : CreatePassengerCode(p) \/ IncrementAttempts(p) \/ AdmitPassenger(p) \/ UseCode(p)
  \/ \E p \in Proc, t \in Token : StoreRefreshToken(p, t) \/ RefreshBegin(p, t) \/ RotateRefreshToken(p, t)
  \/ \E t \in Token : RevokeRefreshToken(t)

Spec == Init /\ [][Next]_vars

-----------------------------------------------------------------------------
(* Properties.                                                             *)

SessionTokens(s) == {t \in Token : Issued(t) /\ tokens[t].session = s}

\* Two requests that refresh with the same token leave the session with one
\* token that works, not two.
OneLiveToken == \A s \in Token : Cardinality({t \in SessionTokens(s) : tokens[t].live}) <= 1

\* A session that has ended stays ended: a refresh that was on its way when the
\* user signed out does not bring it back.
EndedStaysEnded ==
  [][\A s \in Token :
       SessionTokens(s) # {} /\ (\A t \in SessionTokens(s) : ~tokens[t].live) =>
         \A t \in SessionTokens(s)' : ~tokens'[t].live]_vars

\* A code sent to a user's address opens one session, however often it is
\* submitted at once.
CodeOpensOneSession ==
  \A s, t \in Token :
    Issued(s) /\ Issued(t) /\ tokens[s].account = tokens[t].account /\ tokens[s].account \in User
      /\ tokens[s].code = tokens[t].code /\ tokens[s].code # 0
    => tokens[s].session = tokens[t].session
=============================================================================
