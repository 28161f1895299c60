--------------------------- MODULE SessionsProofs ---------------------------
(***************************************************************************)
(* Sessions, proved for any accounts, tokens, codes and requests at once:  *)
(* one token of a session works, an ended session stays ended, and a       *)
(* user's code opens one session.                                          *)
(***************************************************************************)
EXTENDS Sessions, Sums

Job == {Idle}
       \union [op: {"request"}, a: Passenger]
       \union [op: {"admit", "use", "wrong", "store"}, a: Account, n: Nat]
       \union [op: {"rotate"}, t: Token]

Typed ==
  /\ codes \in [Account -> Seq(Code)]
  /\ tokens \in [Token -> RefreshToken \union {None}]
  /\ jobs \in [Proc -> Job]
  /\ \A p \in Proc : jobs[p].op \in {"admit", "use", "wrong"} => jobs[p].n \in DOMAIN codes[jobs[p].a]
  /\ \A p \in Proc : jobs[p].op = "rotate" => Issued(jobs[p].t)

LEMMA JobKinds ==
  ASSUME NEW j \in Job
  PROVE  /\ j.op = "request" => j.a \in Passenger /\ j = [op |-> "request", a |-> j.a]
         /\ j.op \in {"admit", "use", "wrong", "store"} =>
              j.a \in Account /\ j.n \in Nat /\ j = [op |-> j.op, a |-> j.a, n |-> j.n]
         /\ j.op = "rotate" => j.t \in Token /\ j = [op |-> "rotate", t |-> j.t]
         /\ j = Idle <=> j.op = "idle"
  BY DEF Job, Idle

LEMMA NoneIsNoRow == None \notin RefreshToken
  BY SessionsAssumption

\* What a step leaves of the codes it finds: they stay, and what is used stays used.
CodesKept ==
  \A a \in Account : \A n \in DOMAIN codes[a] :
    n \in DOMAIN codes'[a] /\ (codes[a][n].used => codes'[a][n].used)

\* One code is written, and a used one is written as used.
LEMMA CodeWritten ==
  ASSUME Typed, NEW a \in Account, NEW n \in DOMAIN codes[a], NEW c \in Code,
         codes[a][n].used => c.used,
         codes' = [codes EXCEPT ![a][n] = c]
  PROVE  codes' \in [Account -> Seq(Code)] /\ CodesKept
  <1>1. codes[a] \in Seq(Code) /\ DOMAIN [codes[a] EXCEPT ![n] = c] = DOMAIN codes[a]
    BY DEF Typed
  <1>2. [codes[a] EXCEPT ![n] = c] \in Seq(Code)
    BY <1>1
  <1>3. codes' = [codes EXCEPT ![a] = [codes[a] EXCEPT ![n] = c]]
    OBVIOUS
  <1>4. codes' \in [Account -> Seq(Code)]
    BY <1>2, <1>3 DEF Typed
  <1>5. CodesKept
    BY <1>1, <1>3 DEF Typed, CodesKept, Issued
  <1>. QED  BY <1>4, <1>5

LEMMA TypedInit == Init => Typed
  BY DEF Init, Typed, Job, Idle

LEMMA TypedStep ==
  ASSUME Typed, [Next]_vars
  PROVE  Typed' /\ CodesKept
  <1>. USE JobKinds
  <1>1. ASSUME NEW p \in Proc, NEW a \in Account, InvalidateActiveByPhone(p, a)
        PROVE  Typed' /\ CodesKept
    <2>. DEFINE new == [n \in DOMAIN codes[a] |-> IF codes[a][n].expired THEN codes[a][n]
                                                  ELSE [codes[a][n] EXCEPT !.used = TRUE]]
    <2>1. codes[a] \in Seq(Code) /\ codes' = [codes EXCEPT ![a] = new]
      BY <1>1 DEF InvalidateActiveByPhone, Typed
    <2>2. new \in Seq(Code) /\ DOMAIN new = DOMAIN codes[a]
      <3>1. Len(codes[a]) \in Nat /\ DOMAIN codes[a] = 1..Len(codes[a])
        BY <2>1
      <3>2. \A n \in DOMAIN codes[a] : codes[a][n] \in Code
        BY <2>1
      <3>3. \A n \in DOMAIN codes[a] : new[n] \in Code
        BY <3>2 DEF Code
      <3>4. new \in [1..Len(codes[a]) -> Code]
        BY <3>1, <3>3
      <3>. QED  BY <3>1, <3>4
    <2>3. codes' \in [Account -> Seq(Code)] /\ CodesKept
      BY <2>1, <2>2 DEF Typed, CodesKept, Code
    <2>. QED  BY <1>1, <2>3 DEF InvalidateActiveByPhone, Begin, Job, Typed, CodesKept, Issued
  <1>2. ASSUME NEW p \in Proc, CreatePassengerCode(p) PROVE Typed' /\ CodesKept
    BY <1>2 DEF CreatePassengerCode, End, Job, Code, NewCode, Account, Typed, CodesKept, Issued
  <1>3. ASSUME NEW a \in Account, SendEmailCode(a) PROVE Typed' /\ CodesKept
    BY <1>3 DEF SendEmailCode, Code, NewCode, Typed, CodesKept, Issued
  <1>4. ASSUME NEW a \in Account, NEW n \in 1..MaxCodes, CodeExpires(a, n) PROVE Typed' /\ CodesKept
    <2>. DEFINE c == [codes[a][n] EXCEPT !.expired = TRUE]
    <2>0. n \in DOMAIN codes[a] /\ codes[a][n] \in Code
      BY <1>4 DEF CodeExpires, Typed
    <2>1. c \in Code /\ c.used = codes[a][n].used
      BY <2>0 DEF Code
    <2>2. codes' \in [Account -> Seq(Code)] /\ CodesKept
      BY <1>4, <2>0, <2>1, CodeWritten DEF CodeExpires
    <2>. QED  BY <1>4, <2>2 DEF CodeExpires, Typed, CodesKept, Issued
  <1>5. ASSUME NEW p \in Proc, NEW a \in Account, NEW right \in BOOLEAN, CheckCode(p, a, right)
        PROVE  Typed' /\ CodesKept
    <2>1. PICK m \in Latest(a) : jobs' = [jobs EXCEPT ![p] = [op |-> IF right THEN Matched(a) ELSE "wrong", a |-> a, n |-> m]]
      BY <1>5 DEF CheckCode, Begin
    <2>2. m \in DOMAIN codes[a] /\ m \in Nat
      BY DEF Latest, ActiveCodes, Typed
    <2>3. PICK op \in {"admit", "use", "wrong"} : jobs' = [jobs EXCEPT ![p] = [op |-> op, a |-> a, n |-> m]]
      BY <2>1 DEF Matched
    <2>4. [op |-> op, a |-> a, n |-> m] \in Job
      BY <2>2 DEF Job
    <2>. QED  BY <1>5, <2>2, <2>3, <2>4 DEF CheckCode, Typed, CodesKept, Issued
  <1>6. ASSUME NEW p \in Proc, IncrementAttempts(p) PROVE Typed' /\ CodesKept
    <2>. DEFINE a == jobs[p].a
                n == jobs[p].n
                c == [codes[a][n] EXCEPT !.attempts = @ + 1]
    <2>1. a \in Account /\ n \in DOMAIN codes[a] /\ codes[a][n] \in Code
      BY <1>6 DEF IncrementAttempts, Typed
    <2>2. c \in Code /\ c.used = codes[a][n].used
      BY <2>1 DEF Code
    <2>3. codes' = codes \/ codes' = [codes EXCEPT ![a][n] = c]
      BY <1>6 DEF IncrementAttempts
    <2>4. codes' \in [Account -> Seq(Code)] /\ CodesKept
      <3>. HIDE DEF a, n, c
      <3>. QED  BY <2>1, <2>2, <2>3, CodeWritten DEF Typed, CodesKept, Issued
    <2>. QED  BY <1>6, <2>4, ZenonT(60) DEF IncrementAttempts, End, Job, Typed, CodesKept, Issued
  <1>7. ASSUME NEW p \in Proc, UseCode(p) PROVE Typed' /\ CodesKept
    <2>. DEFINE a == jobs[p].a
                n == jobs[p].n
                c == [codes[a][n] EXCEPT !.used = TRUE]
    <2>1. a \in Account /\ n \in DOMAIN codes[a] /\ codes[a][n] \in Code
      BY <1>7 DEF UseCode, Typed
    <2>2. c \in Code /\ c.used
      BY <2>1 DEF Code
    <2>3. codes' = codes \/ codes' = [codes EXCEPT ![a][n] = c]
      BY <1>7 DEF UseCode
    <2>4. codes' \in [Account -> Seq(Code)] /\ CodesKept
      <3>. HIDE DEF a, n, c
      <3>. QED  BY <2>1, <2>2, <2>3, CodeWritten DEF Typed, CodesKept, Issued
    <2>5. CASE Continue(p, "store")
      <3>1. jobs' = [jobs EXCEPT ![p] = [op |-> "store", a |-> a, n |-> n]]
        <4>1. jobs[p] \in Job /\ jobs[p].op = "use"
          BY <1>7 DEF UseCode, Typed
        <4>2. [jobs[p] EXCEPT !.op = "store"] = [op |-> "store", a |-> a, n |-> n]
          BY <4>1
        <4>3. jobs' = [jobs EXCEPT ![p] = [jobs[p] EXCEPT !.op = "store"]]
          BY <2>5 DEF Continue
        <4>. QED  BY <4>2, <4>3
      <3>2. jobs' \in [Proc -> Job]
        BY <2>1, <3>1 DEF Typed, Job
      <3>. QED  BY <1>7, <2>4, <3>1, <3>2 DEF UseCode, Typed, CodesKept, Issued
    <2>6. CASE End(p)
      BY <1>7, <2>4, <2>6 DEF UseCode, End, Job, Typed, CodesKept, Issued
    <2>. QED  BY <1>7, <2>5, <2>6 DEF UseCode
  <1>8. ASSUME NEW p \in Proc, NEW t \in Token, StoreRefreshToken(p, t) PROVE Typed' /\ CodesKept
    BY <1>8 DEF StoreRefreshToken, End, Job, RefreshToken, Typed, CodesKept, Issued
  <1>9. ASSUME NEW p \in Proc, NEW a \in Account, StartLogin(p, a) PROVE Typed' /\ CodesKept
    BY <1>9 DEF StartLogin, Begin, Job, Typed, CodesKept, Issued
  <1>10. ASSUME NEW p \in Proc, NEW t \in Token, RefreshBegin(p, t) PROVE Typed' /\ CodesKept
    BY <1>10 DEF RefreshBegin, Begin, Job, Typed, CodesKept, Issued
  <1>11. ASSUME NEW p \in Proc, NEW t \in Token, RotateRefreshToken(p, t) PROVE Typed' /\ CodesKept
    <2>. DEFINE old == jobs[p].t
    <2>1. old \in Token /\ tokens[old] \in RefreshToken /\ old # t
      BY <1>11 DEF RotateRefreshToken, Typed, Issued
    <2>2. tokens' = tokens \/
          tokens' = [tokens EXCEPT ![old] = [tokens[old] EXCEPT !.live = FALSE],
                                   ![t] = [tokens[old] EXCEPT !.live = TRUE]]
      BY <1>11 DEF RotateRefreshToken
    <2>3. /\ [tokens[old] EXCEPT !.live = FALSE] \in RefreshToken
          /\ [tokens[old] EXCEPT !.live = TRUE] \in RefreshToken
      BY <2>1 DEF RefreshToken
    <2>4. /\ tokens' \in [Token -> RefreshToken \union {None}]
          /\ \A s \in Token : Issued(s) => Issued(s)'
      <3>. DEFINE dead == [tokens[old] EXCEPT !.live = FALSE]
                  fresh == [tokens[old] EXCEPT !.live = TRUE]
      <3>1. dead \in RefreshToken /\ fresh \in RefreshToken
        BY <2>3
      <3>. HIDE DEF dead, fresh, old
      <3>2. tokens' = tokens \/ tokens' = [tokens EXCEPT ![old] = dead, ![t] = fresh]
        BY <2>2 DEF dead, fresh
      <3>3. tokens \in [Token -> RefreshToken \union {None}] /\ dead # None /\ fresh # None
        BY <3>1, NoneIsNoRow DEF Typed
      <3>4. CASE tokens' = tokens
        BY <3>3, <3>4 DEF Issued
      <3>5. CASE tokens' = [tokens EXCEPT ![old] = dead, ![t] = fresh]
        <4>1. \A s \in Token : tokens'[s] = IF s = t THEN fresh ELSE IF s = old THEN dead ELSE tokens[s]
          BY <2>1, <3>3, <3>5
        <4>2. tokens' \in [Token -> RefreshToken \union {None}]
          BY <2>1, <3>1, <3>3, <3>5
        <4>. QED  BY <3>3, <4>1, <4>2 DEF Issued
      <3>. QED  BY <3>2, <3>4, <3>5
    <2>5. /\ jobs' = [jobs EXCEPT ![p] = Idle] /\ codes' = codes
      BY <1>11 DEF RotateRefreshToken, End
    <2>. QED  BY <2>4, <2>5 DEF Job, Idle, Typed, CodesKept, Issued
  <1>12. ASSUME NEW t \in Token, RevokeRefreshToken(t) PROVE Typed' /\ CodesKept
    <2>1. tokens[t] \in RefreshToken /\ tokens' = [tokens EXCEPT ![t] = [tokens[t] EXCEPT !.live = FALSE]]
      BY <1>12 DEF RevokeRefreshToken, Issued, Typed
    <2>. DEFINE dead == [tokens[t] EXCEPT !.live = FALSE]
    <2>2. dead \in RefreshToken
      BY <2>1 DEF RefreshToken
    <2>3. tokens' = [tokens EXCEPT ![t] = dead]
      BY <2>1
    <2>. HIDE DEF dead
    <2>4. UNCHANGED <<codes, jobs>>
      BY <1>12 DEF RevokeRefreshToken
    <2>5. /\ tokens' \in [Token -> RefreshToken \union {None}]
          /\ \A s \in Token : Issued(s) => Issued(s)'
      BY <2>2, <2>3, NoneIsNoRow DEF Typed, Issued
    <2>. QED  BY <2>4, <2>5 DEF Typed, CodesKept
  <1>14. ASSUME NEW p \in Proc, AdmitPassenger(p) PROVE Typed' /\ CodesKept
    <2>1. jobs[p].a \in Account /\ jobs[p].n \in DOMAIN codes[jobs[p].a] /\ jobs[p] = [op |-> "admit", a |-> jobs[p].a, n |-> jobs[p].n]
      BY <1>14 DEF AdmitPassenger, Typed
    <2>2. jobs' = [jobs EXCEPT ![p] = Idle]
          \/ jobs' = [jobs EXCEPT ![p] = [op |-> "use", a |-> jobs[p].a, n |-> jobs[p].n]]
      <3>1. jobs' = [jobs EXCEPT ![p] = Idle] \/ jobs' = [jobs EXCEPT ![p] = [jobs[p] EXCEPT !.op = "use"]]
        BY <1>14 DEF AdmitPassenger, Continue, End
      <3>2. [jobs[p] EXCEPT !.op = "use"] = [op |-> "use", a |-> jobs[p].a, n |-> jobs[p].n]
        BY <2>1
      <3>. QED  BY <3>1, <3>2
    <2>3. jobs[p].n \in Nat
      BY <2>1 DEF Typed
    <2>4. [op |-> "use", a |-> jobs[p].a, n |-> jobs[p].n] \in Job
      BY <2>1, <2>3 DEF Job
    <2>5. UNCHANGED <<codes, tokens>>
      BY <1>14 DEF AdmitPassenger
    <2>6. CASE jobs' = [jobs EXCEPT ![p] = Idle]
      BY <2>5, <2>6 DEF Typed, Job, Idle, CodesKept, Issued
    <2>7. CASE jobs' = [jobs EXCEPT ![p] = [op |-> "use", a |-> jobs[p].a, n |-> jobs[p].n]]
      <3>. DEFINE j == [op |-> "use", a |-> jobs[p].a, n |-> jobs[p].n]
      <3>1. /\ j \in Job /\ j.op = "use" /\ j.n \in DOMAIN codes[j.a]
            /\ jobs' = [jobs EXCEPT ![p] = j]
        BY <2>1, <2>4, <2>7
      <3>. HIDE DEF j
      <3>2. \A q \in Proc : jobs'[q] = IF q = p THEN j ELSE jobs[q]
        BY <3>1 DEF Typed
      <3>3. jobs' \in [Proc -> Job]
        BY <3>1 DEF Typed
      <3>4. \A q \in Proc : jobs'[q].op \in {"admit", "use", "wrong"} => jobs'[q].n \in DOMAIN codes[jobs'[q].a]
        BY <3>1, <3>2 DEF Typed
      <3>5. \A q \in Proc : jobs'[q].op = "rotate" => Issued(jobs'[q].t)
        BY <3>1, <3>2 DEF Typed
      <3>. QED  BY <2>5, <3>3, <3>4, <3>5 DEF Typed, CodesKept, Issued
    <2>. QED  BY <2>2, <2>6, <2>7
  <1>13. CASE UNCHANGED <<codes, tokens, jobs>>
    BY <1>13 DEF Typed, CodesKept, Issued
  <1>. QED
    BY <1>1, <1>2, <1>3, <1>4, <1>5, <1>6, <1>7, <1>8, <1>9, <1>10, <1>11, <1>12, <1>13, <1>14
       DEF Next, vars, SetActive

-----------------------------------------------------------------------------
(* Tokens.                                                                 *)

\* The root of a session is a token that was issued, and of its tokens one
\* works at most.
SessionInv ==
  /\ Typed
  /\ \A t \in Token : Issued(t) => Issued(tokens[t].session)
  /\ \A s, t \in Token :
       /\ Issued(s) /\ Issued(t) /\ tokens[s].live /\ tokens[t].live
       /\ tokens[s].session = tokens[t].session
       => s = t

\* The statements that write tokens.
LEMMA TokenSteps ==
  ASSUME [Next]_vars
  PROVE  \/ UNCHANGED tokens
         \/ \E p \in Proc, t \in Token : StoreRefreshToken(p, t) \/ RotateRefreshToken(p, t)
         \/ \E t \in Token : RevokeRefreshToken(t)
  BY DEF Next, vars, InvalidateActiveByPhone, CreatePassengerCode, SendEmailCode, CodeExpires,
         CheckCode, IncrementAttempts, AdmitPassenger, UseCode, StartLogin, RefreshBegin, SetActive

\* What each of them makes of the tokens.
LEMMA Stored ==
  ASSUME Typed, NEW p \in Proc, NEW t \in Token, StoreRefreshToken(p, t)
  PROVE  \E row \in RefreshToken :
           /\ row.account = jobs[p].a /\ row.session = t /\ row.code = jobs[p].n
           /\ ~Issued(t) /\ tokens' = [tokens EXCEPT ![t] = row]
  <1>. DEFINE row == [account |-> jobs[p].a, session |-> t, code |-> jobs[p].n, live |-> TRUE]
  <1>1. row \in RefreshToken
    BY JobKinds DEF StoreRefreshToken, Typed, RefreshToken
  <1>. QED  BY <1>1 DEF StoreRefreshToken

LEMMA Rotated ==
  ASSUME Typed, NEW p \in Proc, NEW t \in Token, RotateRefreshToken(p, t), tokens' # tokens
  PROVE  \E old \in Token : \E dead, fresh \in RefreshToken :
           /\ Issued(old) /\ tokens[old].live /\ ~Issued(t) /\ old # t
           /\ ~dead.live /\ dead.session = tokens[old].session /\ fresh.session = tokens[old].session
           /\ dead.account = tokens[old].account /\ fresh.account = tokens[old].account
           /\ dead.code = tokens[old].code /\ fresh.code = tokens[old].code
           /\ tokens' = [tokens EXCEPT ![old] = dead, ![t] = fresh]
  <1>. DEFINE old == jobs[p].t
              dead == [tokens[old] EXCEPT !.live = FALSE]
              fresh == [tokens[old] EXCEPT !.live = TRUE]
  <1>1. old \in Token /\ Issued(old) /\ ~Issued(t) /\ old # t
    BY JobKinds DEF RotateRefreshToken, Typed
  <1>2. tokens[old] \in RefreshToken
    BY <1>1 DEF Typed, Issued
  <1>3. dead \in RefreshToken /\ fresh \in RefreshToken
    BY <1>2 DEF RefreshToken
  <1>4. tokens[old].live /\ tokens' = [tokens EXCEPT ![old] = dead, ![t] = fresh]
    BY DEF RotateRefreshToken, Rotatable
  <1>5. /\ ~dead.live /\ dead.session = tokens[old].session /\ fresh.session = tokens[old].session
        /\ dead.account = tokens[old].account /\ fresh.account = tokens[old].account
        /\ dead.code = tokens[old].code /\ fresh.code = tokens[old].code
    BY <1>2 DEF RefreshToken
  <1>. HIDE DEF old, dead, fresh
  <1>. QED  BY <1>1, <1>3, <1>4, <1>5

LEMMA Revoked ==
  ASSUME Typed, NEW t \in Token, RevokeRefreshToken(t)
  PROVE  \E dead \in RefreshToken :
           /\ Issued(t) /\ ~dead.live /\ dead.session = tokens[t].session
           /\ dead.account = tokens[t].account /\ dead.code = tokens[t].code
           /\ tokens' = [tokens EXCEPT ![t] = dead]
  <1>. DEFINE dead == [tokens[t] EXCEPT !.live = FALSE]
  <1>1. tokens[t] \in RefreshToken
    BY DEF RevokeRefreshToken, Typed, Issued
  <1>2. dead \in RefreshToken /\ ~dead.live /\ dead.session = tokens[t].session
        /\ dead.account = tokens[t].account /\ dead.code = tokens[t].code
    BY <1>1 DEF RefreshToken
  <1>. QED  BY <1>2 DEF RevokeRefreshToken

LEMMA SessionInit == Init => SessionInv
  BY TypedInit DEF Init, SessionInv, Issued

LEMMA SessionStep ==
  ASSUME SessionInv, [Next]_vars
  PROVE  SessionInv'
  <1>1. Typed /\ Typed'
    BY TypedStep DEF SessionInv
  <1>. DEFINE Rooted == \A t \in Token : Issued(t) => Issued(tokens[t].session)
              One == \A s, t \in Token :
                       /\ Issued(s) /\ Issued(t) /\ tokens[s].live /\ tokens[t].live
                       /\ tokens[s].session = tokens[t].session
                       => s = t
  <1>2. Rooted /\ One
    BY DEF SessionInv
  <1>3. \A t \in Token : Issued(t) => tokens[t].session \in Token
    BY <1>1 DEF Typed, Issued, RefreshToken
  <1>4. Rooted' /\ One'
    <2>1. CASE UNCHANGED tokens
      BY <2>1, <1>2 DEF Issued
    <2>2. ASSUME NEW p \in Proc, NEW t \in Token, StoreRefreshToken(p, t)
          PROVE  Rooted' /\ One'
      <3>1. PICK row \in RefreshToken :
              row.session = t /\ ~Issued(t) /\ tokens' = [tokens EXCEPT ![t] = row]
        BY <1>1, <2>2, Stored
      <3>2. \A s \in Token : tokens'[s] = IF s = t THEN row ELSE tokens[s]
        BY <1>1, <3>1 DEF Typed
      <3>3. \A s \in Token : Issued(s) => tokens[s].session # t
        BY <1>2, <3>1
      <3>. QED  BY <1>2, <1>3, <3>1, <3>2, <3>3, NoneIsNoRow DEF Issued
    <2>3. ASSUME NEW p \in Proc, NEW t \in Token, RotateRefreshToken(p, t), tokens' # tokens
          PROVE  Rooted' /\ One'
      <3>1. PICK old \in Token : \E dead, fresh \in RefreshToken :
           /\ Issued(old) /\ tokens[old].live /\ ~Issued(t) /\ old # t
           /\ ~dead.live /\ dead.session = tokens[old].session /\ fresh.session = tokens[old].session
           /\ tokens' = [tokens EXCEPT ![old] = dead, ![t] = fresh]
        BY <1>1, <2>3, Rotated
      <3>2. PICK dead \in RefreshToken, fresh \in RefreshToken :
           /\ Issued(old) /\ tokens[old].live /\ ~Issued(t) /\ old # t
           /\ ~dead.live /\ dead.session = tokens[old].session /\ fresh.session = tokens[old].session
           /\ tokens' = [tokens EXCEPT ![old] = dead, ![t] = fresh]
        BY <3>1
      <3>3. \A s \in Token : tokens'[s] = IF s = t THEN fresh ELSE IF s = old THEN dead ELSE tokens[s]
        BY <1>1, <3>2 DEF Typed
      <3>4. \A s \in Token : Issued(s)' <=> Issued(s) \/ s = t
        BY <3>2, <3>3, NoneIsNoRow DEF Issued
      <3>5. Rooted'
        BY <1>2, <1>3, <3>2, <3>3, <3>4
      <3>6. \A s \in Token : Issued(s)' /\ tokens'[s].live =>
              s # old /\ (s # t => tokens'[s] = tokens[s] /\ Issued(s) /\ tokens[s].live)
        BY <3>2, <3>3, <3>4
      <3>7. \A s \in Token : Issued(s) /\ tokens[s].live /\ s # old => tokens[s].session # fresh.session
        BY <1>2, <3>2
      <3>8. One'
        BY <1>2, <3>2, <3>3, <3>4, <3>6, <3>7
      <3>. QED  BY <3>5, <3>8
    <2>4. ASSUME NEW t \in Token, RevokeRefreshToken(t)
          PROVE  Rooted' /\ One'
      <3>1. PICK dead \in RefreshToken :
              /\ Issued(t) /\ ~dead.live /\ dead.session = tokens[t].session
              /\ tokens' = [tokens EXCEPT ![t] = dead]
        BY <1>1, <2>4, Revoked
      <3>2. \A s \in Token : tokens'[s] = IF s = t THEN dead ELSE tokens[s]
        BY <1>1, <3>1 DEF Typed
      <3>. QED  BY <1>2, <1>3, <3>1, <3>2, NoneIsNoRow DEF Issued
    <2>. QED  BY <2>1, <2>2, <2>3, <2>4, TokenSteps
  <1>. QED  BY <1>1, <1>4 DEF SessionInv

\* Two requests that refresh with the same token leave the session with one
\* token that works (RotateRefreshToken).
THEOREM OneTokenWorks == Spec => []OneLiveToken
  <1>1. ASSUME SessionInv PROVE OneLiveToken
    <2>. SUFFICES ASSUME NEW s \in Token
                  PROVE  Cardinality({t \in SessionTokens(s) : tokens[t].live}) <= 1
      BY DEF OneLiveToken
    <2>. DEFINE Live == {t \in SessionTokens(s) : tokens[t].live}
    <2>1. \A t, u \in Live : t = u
      BY <1>1 DEF SessionInv, SessionTokens
    <2>2. Live = {} \/ \E t \in Live : Live = {t}
      BY <2>1
    <2>3. Cardinality(Live) = 0 \/ Cardinality(Live) = 1
      BY <2>2, FS_EmptySet, FS_Singleton
    <2>. HIDE DEF Live
    <2>4. Cardinality(Live) <= 1
      BY <2>3
    <2>. QED  BY <2>4 DEF Live
  <1>. QED  BY <1>1, SessionInit, SessionStep, PTL DEF Spec

\* A session that has ended stays ended, also when a refresh was on its way
\* (RotateRefreshToken looks at revoked_at again).
THEOREM SessionsStayEnded == Spec => EndedStaysEnded
  <1>. DEFINE Ended(s) == SessionTokens(s) # {} /\ \A t \in SessionTokens(s) : ~tokens[t].live
              StaysEnded == \A s \in Token : Ended(s) => \A t \in SessionTokens(s)' : ~tokens'[t].live
  <1>1. ASSUME SessionInv, SessionInv', [Next]_vars
        PROVE  StaysEnded
    <2>. SUFFICES ASSUME NEW s \in Token, Ended(s), NEW v \in SessionTokens(s)'
                  PROVE  ~tokens'[v].live
      OBVIOUS
    <2>0. Typed /\ v \in Token /\ Issued(v)' /\ tokens'[v].session = s /\ Issued(s)
      BY <1>1 DEF SessionInv, SessionTokens
    <2>a. \A u \in Token : Issued(u) /\ tokens[u].session = s => ~tokens[u].live
      BY DEF SessionTokens
    <2>1. CASE UNCHANGED tokens
      BY <2>0, <2>a, <2>1 DEF Issued
    <2>2. ASSUME NEW p \in Proc, NEW t \in Token, StoreRefreshToken(p, t)
          PROVE  ~tokens'[v].live
      <3>1. PICK row \in RefreshToken :
              row.session = t /\ ~Issued(t) /\ tokens' = [tokens EXCEPT ![t] = row]
        BY <2>0, <2>2, Stored
      <3>. QED  BY <2>0, <2>a, <3>1 DEF Typed, Issued
    <2>3. ASSUME NEW p \in Proc, NEW t \in Token, RotateRefreshToken(p, t), tokens' # tokens
          PROVE  ~tokens'[v].live
      <3>1. PICK old \in Token, dead \in RefreshToken, fresh \in RefreshToken :
           /\ Issued(old) /\ tokens[old].live
           /\ ~dead.live /\ fresh.session = tokens[old].session
           /\ tokens' = [tokens EXCEPT ![old] = dead, ![t] = fresh]
        BY <2>0, <2>3, Rotated
      <3>. QED  BY <2>0, <2>a, <3>1 DEF Typed, Issued
    <2>4. ASSUME NEW t \in Token, RevokeRefreshToken(t)
          PROVE  ~tokens'[v].live
      <3>1. PICK dead \in RefreshToken : ~dead.live /\ tokens' = [tokens EXCEPT ![t] = dead]
        BY <2>0, <2>4, Revoked
      <3>. QED  BY <2>0, <2>a, <3>1 DEF Typed, Issued
    <2>. QED  BY <1>1, <2>1, <2>2, <2>3, <2>4, TokenSteps
  <1>2. ASSUME SessionInv, SessionInv', [Next]_vars
        PROVE  [\A s \in Token :
                  SessionTokens(s) # {} /\ (\A t \in SessionTokens(s) : ~tokens[t].live) =>
                    \A t \in SessionTokens(s)' : ~tokens'[t].live]_vars
    BY <1>1, <1>2
  <1>. QED  BY <1>2, SessionInit, SessionStep, PTL DEF Spec, EndedStaysEnded

-----------------------------------------------------------------------------
(* Codes.                                                                  *)

\* The requests that are about to open a session with a code, and the tokens of
\* the sessions it has opened.
Opening(p, a, n) == jobs[p].op = "store" /\ jobs[p].a = a /\ jobs[p].n = n
Opened(t, a, n) == Issued(t) /\ tokens[t].account = a /\ tokens[t].code = n
IsUsed(a, n) == n \in DOMAIN codes[a] /\ codes[a][n].used

\* A request that opens a session has used the code, and no other request and no
\* session has.
CodesUsed ==
  \A a \in User, n \in Nat \ {0} :
    /\ \A p \in Proc : Opening(p, a, n) =>
         /\ IsUsed(a, n)
         /\ \A q \in Proc : Opening(q, a, n) => q = p
         /\ \A t \in Token : ~Opened(t, a, n)
    /\ \A t \in Token : Opened(t, a, n) =>
         /\ IsUsed(a, n)
         /\ \A s \in Token : Opened(s, a, n) => tokens[s].session = tokens[t].session

\* A request comes to open a session with a code by using it.
LEMMA OpeningStep ==
  ASSUME Typed, [Next]_vars, NEW a \in User, NEW n \in Nat \ {0}, NEW p \in Proc, Opening(p, a, n)'
  PROVE  \/ Opening(p, a, n)
         \/ ~IsUsed(a, n) /\ IsUsed(a, n)' /\ UNCHANGED tokens /\ \A q \in Proc \ {p} : jobs'[q] = jobs[q]
  <1>. USE JobKinds
  <1>. DEFINE Goal == \/ Opening(p, a, n)
                      \/ ~IsUsed(a, n) /\ IsUsed(a, n)' /\ UNCHANGED tokens /\ \A q \in Proc \ {p} : jobs'[q] = jobs[q]
  <1>1. ASSUME NEW q \in Proc, UseCode(q) PROVE Goal
    <2>1. CASE q # p
      BY <1>1, <2>1 DEF UseCode, Continue, End, Opening, Typed
    <2>2. CASE q = p
      <3>1. jobs[p].op = "use" /\ jobs[p].a \in Account /\ jobs[p].n \in DOMAIN codes[jobs[p].a]
            /\ codes[jobs[p].a][jobs[p].n] \in Code
        BY <1>1, <2>2 DEF UseCode, Typed
      <3>2. ~End(p)
        BY DEF End, Opening, Idle, Typed
      <3>3. Continue(p, "store") /\ Consumable(jobs[p].a, jobs[p].n) /\ UNCHANGED tokens
            /\ codes' = [codes EXCEPT ![jobs[p].a][jobs[p].n].used = TRUE]
        BY <1>1, <2>2, <3>2 DEF UseCode
      <3>4. jobs[p].a = a /\ jobs[p].n = n
        BY <3>1, <3>3 DEF Continue, Opening, Typed
      <3>5. a \in Account /\ n \in DOMAIN codes[a] /\ codes[a] \in Seq(Code) /\ codes[a][n] \in Code
        BY <3>1, <3>4 DEF Typed
      <3>6. ~IsUsed(a, n)
        BY <3>3, <3>4, SessionsAssumption DEF Consumable, IsUsed
      <3>7. IsUsed(a, n)'
        <4>. DEFINE c == [codes[a][n] EXCEPT !.used = TRUE]
        <4>1. c.used
          BY <3>5 DEF Code
        <4>2. codes' = [codes EXCEPT ![a] = [codes[a] EXCEPT ![n] = c]]
          BY <3>3, <3>4
        <4>. HIDE DEF c
        <4>. QED  BY <3>5, <4>1, <4>2 DEF IsUsed, Typed
      <3>. QED  BY <3>3, <3>6, <3>7 DEF Continue, Typed
    <2>. QED  BY <2>1, <2>2
  <1>2. ASSUME NEW q \in Proc, NEW b \in Account, StartLogin(q, b) PROVE Goal
    BY <1>2 DEF StartLogin, Begin, Opening, Typed
  <1>3. ASSUME NEW q \in Proc, End(q) PROVE Goal
    BY <1>3 DEF End, Idle, Opening, Typed
  <1>4. ASSUME NEW q \in Proc, NEW b \in Account,
               InvalidateActiveByPhone(q, b) \/ \E right \in BOOLEAN : CheckCode(q, b, right)
        PROVE  Goal
    BY <1>4 DEF InvalidateActiveByPhone, CheckCode, Matched, Begin, Opening, Typed
  <1>5. ASSUME NEW q \in Proc, NEW t \in Token, RefreshBegin(q, t) PROVE Goal
    BY <1>5 DEF RefreshBegin, Begin, Opening, Typed
  <1>6. ASSUME UNCHANGED jobs PROVE Goal
    BY <1>6 DEF Opening
  <1>8. ASSUME NEW q \in Proc, AdmitPassenger(q) PROVE Goal
    <2>1. CASE End(q)
      BY <1>3, <2>1
    <2>2. CASE Continue(q, "use")
      BY <2>2 DEF Continue, Opening, Typed
    <2>. QED  BY <1>8, <2>1, <2>2 DEF AdmitPassenger
  <1>. HIDE DEF Goal
  <1>7. Goal
    BY <1>1, <1>2, <1>3, <1>4, <1>5, <1>6, <1>8
    DEF Next, vars, SendEmailCode, SetActive, CodeExpires, CreatePassengerCode, IncrementAttempts,
        StoreRefreshToken, RotateRefreshToken, RevokeRefreshToken
  <1>. QED  BY <1>7 DEF Goal

\* A token of a code belongs to a session the code has opened, or to the one a
\* request now opens.
LEMMA OpenedStep ==
  ASSUME SessionInv, [Next]_vars, NEW a \in User, NEW n \in Nat \ {0}, NEW t \in Token, Opened(t, a, n)'
  PROVE  \/ \E s \in Token : Opened(s, a, n) /\ tokens'[t].session = tokens[s].session
         \/ \E p \in Proc : /\ Opening(p, a, n) /\ ~Opening(p, a, n)'
                            /\ \A q \in Proc \ {p} : jobs'[q] = jobs[q]
                            /\ \A s \in Token \ {t} : tokens'[s] = tokens[s]
  <1>. DEFINE Goal ==
         \/ \E s \in Token : Opened(s, a, n) /\ tokens'[t].session = tokens[s].session
         \/ \E p \in Proc : /\ Opening(p, a, n) /\ ~Opening(p, a, n)'
                            /\ \A q \in Proc \ {p} : jobs'[q] = jobs[q]
                            /\ \A s \in Token \ {t} : tokens'[s] = tokens[s]
  <1>0. Typed
    BY DEF SessionInv
  <1>1. ASSUME UNCHANGED tokens PROVE Goal
    BY <1>1 DEF Opened, Issued
  <1>2. ASSUME NEW p \in Proc, NEW u \in Token, StoreRefreshToken(p, u) PROVE Goal
    <2>1. PICK row \in RefreshToken :
            /\ row.account = jobs[p].a /\ row.session = u /\ row.code = jobs[p].n
            /\ ~Issued(u) /\ tokens' = [tokens EXCEPT ![u] = row]
      BY <1>0, <1>2, Stored
    <2>2. \A s \in Token : tokens'[s] = IF s = u THEN row ELSE tokens[s]
      BY <1>0, <2>1 DEF Typed
    <2>3. CASE t # u
      BY <2>2, <2>3 DEF Opened, Issued
    <2>4. CASE t = u
      <3>1. Opening(p, a, n)
        BY <1>2, <2>1, <2>2, <2>4 DEF Opened, Opening, StoreRefreshToken
      <3>2. jobs' = [jobs EXCEPT ![p] = Idle]
        BY <1>2 DEF StoreRefreshToken, End
      <3>3. ~Opening(p, a, n)' /\ \A q \in Proc \ {p} : jobs'[q] = jobs[q]
        BY <1>0, <3>2 DEF Typed, Opening, Idle
      <3>. QED  BY <2>2, <2>4, <3>1, <3>3
    <2>. QED  BY <2>3, <2>4
  <1>3. ASSUME NEW p \in Proc, NEW u \in Token, RotateRefreshToken(p, u), tokens' # tokens PROVE Goal
    <2>1. PICK old \in Token : \E dead, fresh \in RefreshToken :
           /\ Issued(old)
           /\ dead.session = tokens[old].session /\ fresh.session = tokens[old].session
           /\ dead.account = tokens[old].account /\ fresh.account = tokens[old].account
           /\ dead.code = tokens[old].code /\ fresh.code = tokens[old].code
           /\ tokens' = [tokens EXCEPT ![old] = dead, ![u] = fresh]
      BY <1>0, <1>3, Rotated
    <2>2. PICK dead \in RefreshToken, fresh \in RefreshToken :
           /\ Issued(old)
           /\ dead.session = tokens[old].session /\ fresh.session = tokens[old].session
           /\ dead.account = tokens[old].account /\ fresh.account = tokens[old].account
           /\ dead.code = tokens[old].code /\ fresh.code = tokens[old].code
           /\ tokens' = [tokens EXCEPT ![old] = dead, ![u] = fresh]
      BY <2>1
    <2>3. tokens'[t] = IF t = u THEN fresh ELSE IF t = old THEN dead ELSE tokens[t]
      BY <1>0, <2>2 DEF Typed
    <2>. QED  BY <2>2, <2>3 DEF Opened, Issued
  <1>4. ASSUME NEW u \in Token, RevokeRefreshToken(u) PROVE Goal
    <2>1. PICK dead \in RefreshToken :
            /\ Issued(u) /\ dead.session = tokens[u].session
            /\ dead.account = tokens[u].account /\ dead.code = tokens[u].code
            /\ tokens' = [tokens EXCEPT ![u] = dead]
      BY <1>0, <1>4, Revoked
    <2>2. tokens'[t] = IF t = u THEN dead ELSE tokens[t]
      BY <1>0, <2>1 DEF Typed
    <2>. QED  BY <2>1, <2>2 DEF Opened, Issued
  <1>. HIDE DEF Goal
  <1>5. Goal
    BY <1>1, <1>2, <1>3, <1>4, TokenSteps
  <1>. QED  BY <1>5 DEF Goal

LEMMA CodesUsedStep ==
  ASSUME SessionInv, CodesUsed, [Next]_vars
  PROVE  CodesUsed'
  <1>. SUFFICES ASSUME NEW a \in User, NEW n \in Nat \ {0}
                PROVE  /\ \A p \in Proc : Opening(p, a, n)' =>
                            /\ IsUsed(a, n)'
                            /\ \A q \in Proc : Opening(q, a, n)' => q = p
                            /\ \A t \in Token : ~Opened(t, a, n)'
                       /\ \A t \in Token : Opened(t, a, n)' =>
                            /\ IsUsed(a, n)'
                            /\ \A s \in Token : Opened(s, a, n)' => tokens'[s].session = tokens'[t].session
    BY DEF CodesUsed
  <1>1. Typed /\ CodesKept /\ a \in Account
    BY TypedStep DEF SessionInv, Account
  <1>2. IsUsed(a, n) => IsUsed(a, n)'
    BY <1>1 DEF CodesKept, IsUsed
  <1>3. \A p \in Proc : Opening(p, a, n)' =>
           \/ Opening(p, a, n)
           \/ ~IsUsed(a, n) /\ IsUsed(a, n)' /\ UNCHANGED tokens /\ \A q \in Proc \ {p} : jobs'[q] = jobs[q]
    BY <1>1, OpeningStep
  <1>4. \A t \in Token : Opened(t, a, n)' =>
           \/ \E s \in Token : Opened(s, a, n) /\ tokens'[t].session = tokens[s].session
           \/ \E p \in Proc : /\ Opening(p, a, n) /\ ~Opening(p, a, n)'
                              /\ \A q \in Proc \ {p} : jobs'[q] = jobs[q]
                              /\ \A s \in Token \ {t} : tokens'[s] = tokens[s]
    BY OpenedStep
  <1>5. ASSUME NEW p \in Proc, Opening(p, a, n)'
        PROVE  /\ IsUsed(a, n)'
               /\ \A q \in Proc : Opening(q, a, n)' => q = p
               /\ \A t \in Token : ~Opened(t, a, n)'
    <2>1. CASE Opening(p, a, n)
      <3>1. IsUsed(a, n) /\ (\A q \in Proc : Opening(q, a, n) => q = p) /\ \A t \in Token : ~Opened(t, a, n)
        BY <2>1 DEF CodesUsed
      <3>. QED  BY <1>2, <1>3, <1>4, <1>5, <3>1
    <2>2. CASE ~Opening(p, a, n)
      <3>1. ~IsUsed(a, n) /\ IsUsed(a, n)' /\ UNCHANGED tokens /\ \A q \in Proc \ {p} : jobs'[q] = jobs[q]
        BY <1>3, <1>5, <2>2
      <3>2. (\A q \in Proc : ~Opening(q, a, n)) /\ \A t \in Token : ~Opened(t, a, n)
        BY <3>1 DEF CodesUsed
      <3>3. \A q \in Proc \ {p} : ~Opening(q, a, n)'
        BY <3>1, <3>2 DEF Opening
      <3>4. \A t \in Token : ~Opened(t, a, n)'
        BY <3>1, <3>2 DEF Opened, Issued
      <3>. QED  BY <3>1, <3>3, <3>4
    <2>. QED  BY <2>1, <2>2
  <1>6. ASSUME NEW t \in Token, Opened(t, a, n)'
        PROVE  /\ IsUsed(a, n)'
               /\ \A s \in Token : Opened(s, a, n)' => tokens'[s].session = tokens'[t].session
    <2>1. CASE \E s \in Token : Opened(s, a, n)
      <3>1. IsUsed(a, n) /\ \A p \in Proc : ~Opening(p, a, n)
        BY <2>1 DEF CodesUsed
      <3>2. \A s \in Token : Opened(s, a, n)' =>
              \E u \in Token : Opened(u, a, n) /\ tokens'[s].session = tokens[u].session
        BY <1>4, <3>1
      <3>. QED  BY <1>2, <1>6, <3>1, <3>2 DEF CodesUsed
    <2>2. CASE \A s \in Token : ~Opened(s, a, n)
      <3>1. PICK p \in Proc : /\ Opening(p, a, n)
                              /\ \A s \in Token \ {t} : tokens'[s] = tokens[s]
        BY <1>4, <1>6, <2>2
      <3>2. IsUsed(a, n)
        BY <3>1 DEF CodesUsed
      <3>3. \A s \in Token \ {t} : ~Opened(s, a, n)'
        BY <2>2, <3>1 DEF Opened, Issued
      <3>. QED  BY <1>2, <3>2, <3>3
    <2>. QED  BY <2>1, <2>2
  <1>. QED  BY <1>5, <1>6

\* A user's code opens one session, however often it is submitted at once
\* (ConsumeCode updates a code that is not consumed).
THEOREM CodesOpenOneSession == Spec => []CodeOpensOneSession
  <1>1. Init => CodesUsed
    BY DEF Init, CodesUsed, Opening, Opened, Issued, Idle
  <1>2. ASSUME SessionInv, CodesUsed PROVE CodeOpensOneSession
    <2>1. \A t \in Token : Issued(t) => tokens[t].code \in Nat
      BY <1>2 DEF SessionInv, Typed, Issued, RefreshToken
    <2>. QED  BY <1>2, <2>1 DEF CodesUsed, Opened, CodeOpensOneSession
  <1>. QED  BY <1>1, <1>2, SessionInit, SessionStep, CodesUsedStep, PTL DEF Spec

-----------------------------------------------------------------------------
(* Attempts.  Requests that read a code together may each count a wrong    *)
(* attempt after the last was allowed; those still to count are counted in. *)

Counting(a, n) == {p \in Proc : jobs[p].op = "wrong" /\ jobs[p].a = a /\ jobs[p].n = n}

Attempts(a, n) == codes[a][n].attempts

Counted ==
  /\ active \subseteq Account
  /\ \A a \in Account : Len(codes[a]) <= MaxCodes
  /\ \A a \in Account : \A n \in DOMAIN codes[a] :
       Attempts(a, n) + Cardinality(Counting(a, n)) < MaxAttempts + Cardinality(Proc)

LEMMA CountingFinite ==
  ASSUME NEW a, NEW n
  PROVE  /\ IsFiniteSet(Counting(a, n)) /\ Cardinality(Counting(a, n)) \in Nat
         /\ Cardinality(Counting(a, n)) <= Cardinality(Proc) /\ Cardinality(Proc) \in Nat
  <1>1. Counting(a, n) \subseteq Proc /\ IsFiniteSet(Proc)
    BY SessionsAssumption DEF Counting
  <1>. QED  BY <1>1, FS_Subset, FS_CardinalityType

\* A code is sent only when its account has room for it.
LEMMA RoomForCode ==
  ASSUME Typed, MoreCodes, NEW a \in Account
  PROVE  Len(codes[a]) + 1 <= MaxCodes
  <1>. DEFINE f == [b \in Account |-> Len(codes[b])]
  <1>1. IsFiniteSet(Account) /\ MaxCodes \in Nat
    BY SessionsAssumption, FS_Union DEF Account
  <1>2. f \in [Account -> Nat]
    BY DEF Typed
  <1>3. f[a] = Len(codes[a]) /\ Len(codes[a]) \in Nat
    BY <1>2
  <1>4. SumFunction(f) < MaxCodes
    BY DEF MoreCodes
  <1>. HIDE DEF f
  <1>5. f[a] <= SumFunction(f) /\ SumFunction(f) \in Nat
    BY <1>1, <1>2, SumBound, SumNat
  <1>. QED  BY <1>1, <1>3, <1>4, <1>5

\* What becomes of one code and the requests that count against it: they stay, a
\* code that may be tried is tried, or one of them counts.
CodeStep(a, n) ==
  \/ /\ n \in DOMAIN codes[a] /\ codes'[a][n].attempts = codes[a][n].attempts
     /\ Counting(a, n)' \subseteq Counting(a, n)
  \/ codes'[a][n].attempts \in Nat /\ codes'[a][n].attempts < MaxAttempts
  \/ /\ n \in DOMAIN codes[a] /\ codes'[a][n].attempts \in {codes[a][n].attempts, codes[a][n].attempts + 1}
     /\ \E p \in Counting(a, n) : Counting(a, n)' = Counting(a, n) \ {p}

LEMMA CodeStepCounted ==
  ASSUME Typed, Counted, NEW a \in Account, NEW n, CodeStep(a, n)
  PROVE  codes'[a][n].attempts + Cardinality(Counting(a, n)') < MaxAttempts + Cardinality(Proc)
  <1>. DEFINE C == Counting(a, n)
              D == Counting(a, n)'
  <1>1. /\ IsFiniteSet(C) /\ Cardinality(C) \in Nat /\ Cardinality(Proc) \in Nat /\ MaxAttempts \in Nat
        /\ IsFiniteSet(D) /\ Cardinality(D) \in Nat /\ Cardinality(D) <= Cardinality(Proc)
    <2>1. D \subseteq Proc /\ IsFiniteSet(Proc)
      BY SessionsAssumption DEF Counting
    <2>. HIDE DEF D
    <2>2. IsFiniteSet(D) /\ Cardinality(D) \in Nat /\ Cardinality(D) <= Cardinality(Proc)
      BY <2>1, FS_Subset, FS_CardinalityType
    <2>. QED  BY <2>2, CountingFinite, SessionsAssumption
  <1>2. n \in DOMAIN codes[a] => /\ codes[a][n].attempts \in Nat
                                /\ codes[a][n].attempts + Cardinality(C) < MaxAttempts + Cardinality(Proc)
    <2>. SUFFICES ASSUME n \in DOMAIN codes[a]
                  PROVE  /\ codes[a][n].attempts \in Nat
                         /\ codes[a][n].attempts + Cardinality(C) < MaxAttempts + Cardinality(Proc)
      OBVIOUS
    <2>1. codes[a] \in Seq(Code)
      BY DEF Typed
    <2>2. codes[a][n] \in Code
      BY <2>1
    <2>. QED  BY <2>2 DEF Code, Counted, Attempts
  <1>. HIDE DEF C, D
  <1>3. CASE n \in DOMAIN codes[a] /\ codes'[a][n].attempts = codes[a][n].attempts /\ D \subseteq C
    <2>1. Cardinality(D) <= Cardinality(C)
      BY <1>1, <1>3, FS_Subset
    <2>. QED  BY <1>1, <1>2, <1>3, <2>1 DEF D
  <1>4. CASE codes'[a][n].attempts \in Nat /\ codes'[a][n].attempts < MaxAttempts
    BY <1>1, <1>4 DEF D
  <1>5. ASSUME n \in DOMAIN codes[a], codes'[a][n].attempts \in {codes[a][n].attempts, codes[a][n].attempts + 1},
               NEW p \in C, D = C \ {p}
        PROVE  codes'[a][n].attempts + Cardinality(D) < MaxAttempts + Cardinality(Proc)
    <2>1. Cardinality(D) = Cardinality(C) - 1
      BY <1>1, <1>5, FS_RemoveElement
    <2>. QED  BY <1>1, <1>2, <1>5, <2>1
  <1>. QED  BY <1>3, <1>4, <1>5 DEF CodeStep, C, D

LEMMA StepIsCodeStep ==
  ASSUME Typed, Counted, [Next]_vars, NEW a \in Account, NEW n \in DOMAIN codes'[a]
  PROVE  CodeStep(a, n)
  <1>0. /\ codes \in [Account -> Seq(Code)] /\ MaxAttempts \in Nat \ {0}
        /\ \A m \in DOMAIN codes[a] : codes[a][m] \in Code /\ codes[a][m].attempts \in Nat
    <2>1. codes \in [Account -> Seq(Code)] /\ codes[a] \in Seq(Code)
      BY DEF Typed
    <2>2. \A m \in DOMAIN codes[a] : codes[a][m] \in Code
      BY <2>1
    <2>. QED  BY <2>1, <2>2, SessionsAssumption DEF Code
  <1>1. ASSUME n \in DOMAIN codes[a], codes'[a][n].attempts = codes[a][n].attempts, Counting(a, n)' \subseteq Counting(a, n)
        PROVE  CodeStep(a, n)
    BY <1>1 DEF CodeStep
  <1>c. ASSUME NEW p \in Proc, NEW j, jobs' = [jobs EXCEPT ![p] = j], j.op # "wrong" \/ j.a # a \/ j.n # n
        PROVE  Counting(a, n)' = Counting(a, n) \ {p}
    <2>1. jobs' = [q \in Proc |-> IF q = p THEN j ELSE jobs[q]]
      BY <1>c DEF Typed
    <2>. QED  BY <1>c, <2>1 DEF Counting
  <1>2. ASSUME NEW p \in Proc, NEW b \in Account, InvalidateActiveByPhone(p, b)  PROVE CodeStep(a, n)
    <2>. DEFINE new == [m \in DOMAIN codes[b] |-> IF codes[b][m].expired THEN codes[b][m]
                                                  ELSE [codes[b][m] EXCEPT !.used = TRUE]]
                j == [op |-> "request", a |-> b]
    <2>1. codes' = [codes EXCEPT ![b] = new] /\ jobs' = [jobs EXCEPT ![p] = j]
      BY <1>2 DEF InvalidateActiveByPhone, Begin
    <2>2. Counting(a, n)' \subseteq Counting(a, n)
      <3>1. j.op # "wrong"
        OBVIOUS
      <3>. HIDE DEF j
      <3>. QED  BY <2>1, <3>1, <1>c
    <2>3. n \in DOMAIN codes[a] /\ codes'[a][n].attempts = codes[a][n].attempts
      <3>1. CASE a = b
        <4>1. codes'[a] = new /\ DOMAIN new = DOMAIN codes[a]
          BY <1>0, <2>1, <3>1
        <4>2. \A m \in DOMAIN codes[a] : new[m].attempts = codes[a][m].attempts
          BY <1>0, <3>1 DEF Code
        <4>. QED  BY <4>1, <4>2
      <3>2. CASE a # b
        <4>1. codes'[a] = codes[a]
          BY <1>0, <2>1, <3>2
        <4>. QED  BY <4>1
      <3>. QED  BY <3>1, <3>2
    <2>. QED  BY <1>1, <2>2, <2>3
  <1>3. ASSUME NEW b \in Account, codes' = [codes EXCEPT ![b] = Append(@, NewCode)], Counting(a, n)' \subseteq Counting(a, n)
        PROVE  CodeStep(a, n)
    <2>1. CASE a = b
      <3>1. codes'[a] = Append(codes[a], NewCode) /\ codes[a] \in Seq(Code)
        BY <1>0, <1>3, <2>1
      <3>2. (n \in DOMAIN codes[a] /\ codes'[a][n] = codes[a][n]) \/ codes'[a][n] = NewCode
        BY <3>1
      <3>3. NewCode.attempts = 0
        BY DEF NewCode
      <3>4. CASE codes'[a][n] = NewCode
        BY <1>0, <3>3, <3>4 DEF CodeStep
      <3>. QED  BY <1>1, <1>3, <3>2, <3>4
    <2>2. CASE a # b
      <3>1. codes'[a] = codes[a]
        BY <1>0, <1>3, <2>2
      <3>. QED  BY <1>1, <1>3, <3>1
    <2>. QED  BY <2>1, <2>2
  <1>4. ASSUME NEW p \in Proc, CreatePassengerCode(p)  PROVE CodeStep(a, n)
    <2>1. /\ jobs[p].a \in Account /\ codes' = [codes EXCEPT ![jobs[p].a] = Append(@, NewCode)]
          /\ jobs' = [jobs EXCEPT ![p] = Idle]
      BY <1>4, JobKinds DEF CreatePassengerCode, End, Typed, Account
    <2>2. Counting(a, n)' \subseteq Counting(a, n)
      <3>1. Idle.op # "wrong"
        BY DEF Idle
      <3>. QED  BY <2>1, <3>1, <1>c
    <2>. QED  BY <1>3, <2>1, <2>2
  <1>5. ASSUME NEW b \in Account, SendEmailCode(b)  PROVE CodeStep(a, n)
    <2>1. codes' = [codes EXCEPT ![b] = Append(@, NewCode)] /\ Counting(a, n)' = Counting(a, n)
      BY <1>5 DEF SendEmailCode, Counting
    <2>. QED  BY <1>3, <2>1
  \* One column of one code is written.
  <1>6. ASSUME NEW b \in Account, NEW m \in DOMAIN codes[b], NEW c, codes' = [codes EXCEPT ![b][m] = c]
        PROVE  /\ n \in DOMAIN codes[a] /\ (a # b \/ n # m => codes'[a][n] = codes[a][n])
               /\ a = b /\ n = m => codes'[a][n] = c
    <2>1. codes'[a] = IF a = b THEN [codes[b] EXCEPT ![m] = c] ELSE codes[a]
      BY <1>0, <1>6
    <2>2. DOMAIN codes'[a] = DOMAIN codes[a]
      BY <2>1
    <2>. QED  BY <2>1, <2>2
  <1>7. ASSUME NEW b \in Account, NEW m \in 1..MaxCodes, CodeExpires(b, m)  PROVE CodeStep(a, n)
    <2>1. /\ m \in DOMAIN codes[b] /\ Counting(a, n)' = Counting(a, n)
          /\ codes' = [codes EXCEPT ![b][m] = [codes[b][m] EXCEPT !.expired = TRUE]]
      BY <1>7 DEF CodeExpires, Counting
    <2>2. codes[b][m] \in Code
      BY <1>0, <2>1
    <2>3. [codes[b][m] EXCEPT !.expired = TRUE].attempts = codes[b][m].attempts
      BY <2>2 DEF Code
    <2>4. n \in DOMAIN codes[a] /\ codes'[a][n].attempts = codes[a][n].attempts
      BY <1>6, <2>1, <2>3
    <2>. QED  BY <1>1, <2>1, <2>4
  <1>8. ASSUME NEW p \in Proc, NEW b \in Account, NEW right \in BOOLEAN, CheckCode(p, b, right)
        PROVE  CodeStep(a, n)
    <2>1. PICK m \in Latest(b) : jobs' = [jobs EXCEPT ![p] = [op |-> IF right THEN Matched(b) ELSE "wrong", a |-> b, n |-> m]]
      BY <1>8 DEF CheckCode, Begin
    <2>2. codes' = codes
      BY <1>8 DEF CheckCode
    <2>3. m \in ActiveCodes(b)
      BY DEF Latest
    <2>. DEFINE j == [op |-> IF right THEN Matched(b) ELSE "wrong", a |-> b, n |-> m]
    <2>4. j.a = b /\ j.n = m
      OBVIOUS
    <2>. HIDE DEF j
    <2>5. CASE a = b /\ n = m
      BY <1>0, <2>2, <2>3, <2>5 DEF CodeStep, ActiveCodes
    <2>6. CASE ~(a = b /\ n = m)
      <3>1. Counting(a, n)' \subseteq Counting(a, n)
        BY <2>1, <2>4, <2>6, <1>c DEF j
      <3>. QED  BY <1>1, <2>2, <3>1
    <2>. QED  BY <2>5, <2>6
  <1>9. ASSUME NEW p \in Proc, IncrementAttempts(p)  PROVE CodeStep(a, n)
    <2>. DEFINE b == jobs[p].a
                m == jobs[p].n
                c == [codes[b][m] EXCEPT !.attempts = @ + 1]
    <2>1. b \in Account /\ m \in DOMAIN codes[b] /\ codes[b][m] \in Code /\ jobs[p].op = "wrong"
      BY <1>9, JobKinds, <1>0 DEF IncrementAttempts, Typed
    <2>2. c.attempts = codes[b][m].attempts + 1
      BY <2>1 DEF Code
    <2>3. (codes' = codes \/ codes' = [codes EXCEPT ![b][m] = c]) /\ jobs' = [jobs EXCEPT ![p] = Idle]
      BY <1>9 DEF IncrementAttempts, End
    <2>4. Counting(a, n)' = Counting(a, n) \ {p} /\ (p \in Counting(a, n) <=> a = b /\ n = m)
      <3>1. Idle.op # "wrong"
        BY DEF Idle
      <3>2. Counting(a, n)' = Counting(a, n) \ {p}
        BY <2>3, <3>1, <1>c
      <3>. QED  BY <2>1, <3>2 DEF Counting
    <2>. HIDE DEF b, m, c
    <2>5. n \in DOMAIN codes[a] /\ (a # b \/ n # m => codes'[a][n] = codes[a][n])
          /\ codes'[a][n] \in {codes[a][n], c}
      BY <1>6, <2>1, <2>3
    <2>6. CASE a = b /\ n = m
      BY <2>2, <2>4, <2>5, <2>6 DEF CodeStep
    <2>7. CASE ~(a = b /\ n = m)
      BY <1>1, <2>4, <2>5, <2>7
    <2>. QED  BY <2>6, <2>7
  <1>10. ASSUME NEW p \in Proc, UseCode(p)  PROVE CodeStep(a, n)
    <2>. DEFINE b == jobs[p].a
                m == jobs[p].n
                c == [codes[b][m] EXCEPT !.used = TRUE]
    <2>1. b \in Account /\ m \in DOMAIN codes[b] /\ codes[b][m] \in Code /\ jobs[p].op = "use"
      BY <1>10, JobKinds, <1>0 DEF UseCode, Typed
    <2>2. c.attempts = codes[b][m].attempts
      BY <2>1 DEF Code
    <2>3. /\ codes' = codes \/ codes' = [codes EXCEPT ![b][m] = c]
          /\ jobs' = [jobs EXCEPT ![p] = Idle] \/ jobs' = [jobs EXCEPT ![p] = [jobs[p] EXCEPT !.op = "store"]]
      BY <1>10 DEF UseCode, End, Continue
    <2>4. Counting(a, n)' \subseteq Counting(a, n)
      <3>1. Idle.op # "wrong" /\ [jobs[p] EXCEPT !.op = "store"].op # "wrong"
        <4>1. jobs[p] \in Job
          BY DEF Typed
        <4>2. jobs[p] = [op |-> "use", a |-> b, n |-> m]
          BY <2>1, <4>1, JobKinds
        <4>. QED  BY <4>2 DEF Idle
      <3>. QED  BY <2>3, <3>1, <1>c
    <2>. HIDE DEF b, m, c
    <2>5. n \in DOMAIN codes[a] /\ codes'[a][n].attempts = codes[a][n].attempts
      BY <1>6, <2>1, <2>2, <2>3
    <2>. QED  BY <1>1, <2>4, <2>5
  <1>11. ASSUME NEW p \in Proc, NEW j, j.op # "wrong", jobs' = [jobs EXCEPT ![p] = j], codes' = codes
         PROVE  CodeStep(a, n)
    BY <1>1, <1>11, <1>c
  <1>16. ASSUME NEW p \in Proc, AdmitPassenger(p)  PROVE CodeStep(a, n)
    <2>1. jobs[p] = [op |-> "admit", a |-> jobs[p].a, n |-> jobs[p].n]
      BY <1>16, JobKinds DEF AdmitPassenger, Typed
    <2>2. [jobs[p] EXCEPT !.op = "use"].op # "wrong" /\ Idle.op # "wrong"
      BY <2>1 DEF Idle
    <2>3. codes' = codes /\ (jobs' = [jobs EXCEPT ![p] = Idle] \/ jobs' = [jobs EXCEPT ![p] = [jobs[p] EXCEPT !.op = "use"]])
      BY <1>16 DEF AdmitPassenger, Continue, End
    <2>. QED  BY <1>11, <2>2, <2>3
  <1>12. ASSUME NEW p \in Proc, NEW t \in Token, StoreRefreshToken(p, t) \/ RotateRefreshToken(p, t)
         PROVE  CodeStep(a, n)
    <2>1. jobs' = [jobs EXCEPT ![p] = Idle] /\ codes' = codes
      BY <1>12 DEF StoreRefreshToken, RotateRefreshToken, End
    <2>. QED  BY <1>11, <2>1 DEF Idle
  <1>13. ASSUME NEW p \in Proc, NEW b \in Account, StartLogin(p, b)  PROVE CodeStep(a, n)
    BY <1>11, <1>13 DEF StartLogin, Begin
  <1>14. ASSUME NEW p \in Proc, NEW t \in Token, RefreshBegin(p, t)  PROVE CodeStep(a, n)
    BY <1>11, <1>14 DEF RefreshBegin, Begin
  <1>15. CASE UNCHANGED <<codes, jobs>>
    BY <1>1, <1>15 DEF Counting
  <1>. QED
    BY <1>2, <1>4, <1>5, <1>7, <1>8, <1>9, <1>10, <1>12, <1>13, <1>14, <1>15, <1>16
       DEF Next, vars, SetActive, RevokeRefreshToken

\* Accounts get codes only where there is room for them.
LEMMA RoomStep ==
  ASSUME Typed, Counted, [Next]_vars
  PROVE  active' \subseteq Account /\ \A a \in Account : Len(codes'[a]) <= MaxCodes
  <1>0. /\ codes \in [Account -> Seq(Code)] /\ active \subseteq Account
        /\ \A a \in Account : Len(codes[a]) <= MaxCodes
    BY DEF Typed, Counted
  <1>. DEFINE Room == \A a \in Account : Len(codes'[a]) <= MaxCodes
  <1>1. ASSUME NEW b \in Account, NEW s, codes' = [codes EXCEPT ![b] = s], Len(s) <= MaxCodes
        PROVE  Room
    BY <1>0, <1>1
  <1>2. ASSUME NEW b \in Account, codes' = [codes EXCEPT ![b] = Append(@, NewCode)], MoreCodes
        PROVE  Room
    <2>1. Len(codes[b]) + 1 <= MaxCodes
      BY <1>2, RoomForCode
    <2>2. Len(Append(codes[b], NewCode)) = Len(codes[b]) + 1
      BY <1>0
    <2>. QED  BY <1>1, <1>2, <2>1, <2>2
  <1>3. ASSUME NEW p \in Proc, NEW b \in Account, InvalidateActiveByPhone(p, b)  PROVE Room
    <2>. DEFINE new == [m \in DOMAIN codes[b] |-> IF codes[b][m].expired THEN codes[b][m]
                                                  ELSE [codes[b][m] EXCEPT !.used = TRUE]]
    <2>1. codes' = [codes EXCEPT ![b] = new]
      BY <1>3 DEF InvalidateActiveByPhone
    <2>2. Len(new) = Len(codes[b])
      <3>1. codes[b] \in Seq(Code) /\ Len(codes[b]) \in Nat /\ DOMAIN new = 1..Len(codes[b])
        BY <1>0
      <3>. QED  BY <3>1
    <2>. HIDE DEF new
    <2>. QED  BY <1>0, <1>1, <2>1, <2>2
  <1>4. ASSUME NEW p \in Proc, CreatePassengerCode(p)  PROVE Room
    <2>1. jobs[p].a \in Account
      BY <1>4, JobKinds DEF CreatePassengerCode, Typed, Account
    <2>. QED  BY <1>2, <1>4, <2>1 DEF CreatePassengerCode
  <1>5. ASSUME NEW b \in Account, SendEmailCode(b)  PROVE Room
    BY <1>2, <1>5 DEF SendEmailCode
  <1>6. ASSUME NEW b \in Account, NEW m \in DOMAIN codes[b], NEW c, codes' = [codes EXCEPT ![b][m] = c]
        PROVE  Room
    <2>1. codes' = [codes EXCEPT ![b] = [codes[b] EXCEPT ![m] = c]]
      BY <1>0, <1>6
    <2>2. Len([codes[b] EXCEPT ![m] = c]) = Len(codes[b])
      <3>1. codes[b] \in Seq(Code)
        BY <1>0
      <3>. QED  BY <3>1
    <2>. QED  BY <1>0, <1>1, <2>1, <2>2
  <1>7. ASSUME NEW b \in Account, NEW m \in 1..MaxCodes, CodeExpires(b, m)  PROVE Room
    BY <1>6, <1>7 DEF CodeExpires
  <1>8. ASSUME NEW p \in Proc, IncrementAttempts(p)  PROVE Room
    <2>1. jobs[p].a \in Account /\ jobs[p].n \in DOMAIN codes[jobs[p].a]
      BY <1>8, JobKinds DEF IncrementAttempts, Typed
    <2>2. codes' = codes \/ codes' = [codes EXCEPT ![jobs[p].a][jobs[p].n] =
                                       [codes[jobs[p].a][jobs[p].n] EXCEPT !.attempts = @ + 1]]
      BY <1>8 DEF IncrementAttempts
    <2>. QED  BY <1>0, <1>6, <2>1, <2>2
  <1>9. ASSUME NEW p \in Proc, UseCode(p)  PROVE Room
    <2>1. jobs[p].a \in Account /\ jobs[p].n \in DOMAIN codes[jobs[p].a]
      BY <1>9, JobKinds DEF UseCode, Typed
    <2>2. codes' = codes \/ codes' = [codes EXCEPT ![jobs[p].a][jobs[p].n] =
                                       [codes[jobs[p].a][jobs[p].n] EXCEPT !.used = TRUE]]
      BY <1>9 DEF UseCode
    <2>. QED  BY <1>0, <1>6, <2>1, <2>2
  <1>10. ASSUME codes' = codes  PROVE Room
    BY <1>0, <1>10
  <1>11. Room
    BY <1>3, <1>4, <1>5, <1>7, <1>8, <1>9, <1>10
       DEF Next, vars, CheckCode, AdmitPassenger, StartLogin, StoreRefreshToken, RefreshBegin, RotateRefreshToken,
           RevokeRefreshToken, SetActive
  <1>12. active' \subseteq Account
    <2>1. active' = active \/ \E a \in Account : SetActive(a)
      BY DEF Next, vars, SendEmailCode, CodeExpires, InvalidateActiveByPhone, StartLogin, CheckCode,
             CreatePassengerCode, IncrementAttempts, AdmitPassenger, UseCode, StoreRefreshToken, RefreshBegin,
             RotateRefreshToken, RevokeRefreshToken
    <2>. QED  BY <1>0, <2>1 DEF SetActive
  <1>. QED  BY <1>11, <1>12

LEMMA CountedInit == Init => Counted
  <1>. SUFFICES ASSUME Init  PROVE Counted
    OBVIOUS
  <1>1. active = Account /\ \A a \in Account : codes[a] = <<>>
    BY DEF Init
  <1>. QED  BY <1>1, SessionsAssumption DEF Counted

LEMMA CountedStep ==
  ASSUME Typed, Counted, [Next]_vars
  PROVE  Counted'
  <1>1. ASSUME NEW a \in Account, NEW n \in DOMAIN codes'[a]
        PROVE  Attempts(a, n)' + Cardinality(Counting(a, n)') < MaxAttempts + Cardinality(Proc)
    BY CodeStepCounted, StepIsCodeStep DEF Attempts
  <1>. QED  BY <1>1, RoomStep DEF Counted

(* A code's wrong attempts stay below the allowed ones and those of the       *)
(* requests that read it together, and an account has the codes it was sent   *)
(* (VerifyCode, ConfirmCode).                                                 *)
THEOREM SessionTypes == Spec => []SessTypeOK
  <1>1. ASSUME Typed, Counted  PROVE SessTypeOK
    <2>1. \A a \in Account : \A n \in DOMAIN codes[a] : codes[a][n].attempts < MaxAttempts + Cardinality(Proc)
      <3>. SUFFICES ASSUME NEW a \in Account, NEW n \in DOMAIN codes[a]
                    PROVE  codes[a][n].attempts < MaxAttempts + Cardinality(Proc)
        OBVIOUS
      <3>1. codes[a] \in Seq(Code)
        BY <1>1 DEF Typed
      <3>2. codes[a][n] \in Code
        BY <3>1
      <3>3. codes[a][n].attempts \in Nat
        BY <3>2 DEF Code
      <3>4. Cardinality(Counting(a, n)) \in Nat /\ Cardinality(Proc) \in Nat /\ MaxAttempts \in Nat
        BY CountingFinite, SessionsAssumption
      <3>5. codes[a][n].attempts + Cardinality(Counting(a, n)) < MaxAttempts + Cardinality(Proc)
        BY <1>1 DEF Counted, Attempts
      <3>. QED  BY <3>3, <3>4, <3>5
    <2>2. \A p \in Proc : jobs[p].op \in {"idle", "request", "wrong", "admit", "use", "store", "rotate"}
      BY <1>1 DEF Typed, Job, Idle
    <2>3. \A t \in Token : Issued(t) => tokens[t] \in RefreshToken
      BY <1>1 DEF Typed, Issued
    <2>4. active \subseteq Account /\ \A a \in Account : codes[a] \in Seq(Code) /\ Len(codes[a]) <= MaxCodes
      BY <1>1 DEF Typed, Counted
    <2>. QED  BY <2>1, <2>2, <2>3, <2>4 DEF SessTypeOK
  <1>2. Typed /\ Counted /\ [Next]_vars => Typed' /\ Counted'
    BY TypedStep, CountedStep
  <1>3. Init => Typed /\ Counted
    BY TypedInit, CountedInit
  <1>. QED  BY <1>1, <1>2, <1>3, PTL DEF Spec
=============================================================================
