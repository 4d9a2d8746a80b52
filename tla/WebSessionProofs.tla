--------------------------- MODULE WebSessionProofs ---------------------------
(***************************************************************************)
(* The safety properties of WebSession, for any number of calls, pairs and *)
(* refreshes.                                                              *)
(***************************************************************************)
EXTENDS WebSession, TLAPS

IInv == TypeOK /\ Custody

\* None is neither a pair nor a request.
LEMMA NoneIsApart == None \notin Pairs /\ None \notin Requests
  BY DEF None, Pairs, Requests

\* A tab with a session just obtained.
LEMMA InitIInv == Init => IInv
  <1> SUFFICES ASSUME Init PROVE IInv
    OBVIOUS
  <1>1. 1 \in Pairs /\ 1 # None
    BY SessionAssumption DEF Pairs, None
  <1>2. TypeOK
    BY <1>1 DEF Init, TypeOK, TokenState, Kind, CallStep, RequestStep
  <1>3. IssueBook
    BY <1>1 DEF Init, IssueBook, Open, SigningIn
  <1>4. ChainBook
    BY DEF Init, ChainBook, Open, SigningIn
  <1>5. UseBook
    BY <1>1 DEF Init, UseBook, OneValid, BetweenWrites, NotUsed, Open, SigningIn
  <1> QED BY <1>2, <1>3, <1>4, <1>5 DEF IInv, Custody

-----------------------------------------------------------------------------
\* No step takes a variable out of its type.
LEMMA TypeStep ==
  ASSUME TypeOK, Next
  PROVE  TypeOK'
  <1> USE NoneIsApart DEF TypeOK, TokenState, CallStep, RequestStep, server, calls,
          refreshing, history
  <1>1. ASSUME NEW c \in Calls, SignIn(c) PROVE TypeOK'
    BY <1>1 DEF SignIn, Kind
  <1>2. ASSUME NEW c \in Calls, NEW k \in Uses, Request(c, k) PROVE TypeOK'
    BY <1>2, SessionAssumption DEF Request
  <1>3. ASSUME NEW c \in Calls, Goes(c) PROVE TypeOK'
    <2>1. CASE StartRefresh(c)
      BY <2>1 DEF StartRefresh, Begin
    <2>2. CASE JoinRefresh(c)
      BY <2>2 DEF JoinRefresh
    <2>3. CASE NoRefresh(c)
      BY <2>3 DEF NoRefresh
    <2>4. CASE Return(c)
      <3>1. Stored(c) \in Pairs \cup {None}
        BY DEF Stored
      <3> QED BY <2>4, <3>1 DEF Return, Kind
    <2> QED BY <1>3, <2>1, <2>2, <2>3, <2>4 DEF Goes
  <1>4. ASSUME NEW c \in Calls, Answers(c) PROVE TypeOK'
    <2>1. CASE SignInServed(c)
      BY <2>1 DEF SignInServed, Issue
    <2>2. Handled(c) \in [Pairs -> TokenState]
      BY DEF Handled
    <2>3. CASE Served(c)
      BY <2>2, <2>3 DEF Served, Answered
    <2>4. CASE Unauthorized(c)
      BY <2>4 DEF Unauthorized, Answered
    <2>5. CASE CallFails(c)
      BY <2>2, <2>5 DEF CallFails, Answered
    <2> QED BY <1>4, <2>1, <2>3, <2>4, <2>5 DEF Answers
  <1>5. CASE Settles
    <2>1. CASE RefreshRefused
      BY <2>1 DEF RefreshRefused, Settle, Close
    <2>2. CASE RefreshAborted
      BY <2>2 DEF RefreshAborted, Settle
    <2>3. CASE RefreshAnswered
      BY <2>3 DEF RefreshAnswered
    <2>4. CASE RefreshRead
      BY <2>4 DEF RefreshRead, Settle, Close
    <2>5. CASE RefreshBodyLost
      BY <2>5 DEF RefreshBodyLost, Settle, Close
    <2> QED BY <1>5, <2>1, <2>2, <2>3, <2>4, <2>5 DEF Settles
  <1>6. ASSUME NEW r \in Requests, Handles(r) PROVE TypeOK'
    <2>1. CASE Lookup(r)
      BY <2>1 DEF Lookup
    <2>2. CASE Revoke(r)
      BY <2>2 DEF Revoke
    <2>3. CASE IssueFresh(r)
      BY <2>3 DEF IssueFresh, Issue
    <2>4. CASE HandlerFails(r)
      BY <2>4 DEF HandlerFails
    <2> QED BY <1>6, <2>1, <2>2, <2>3, <2>4 DEF Handles
  <1>7. ASSUME NEW p \in Pairs, AccessExpires(p) PROVE TypeOK'
    BY <1>7 DEF AccessExpires
  <1>8. CASE Reload
    BY <1>8 DEF Reload, Kind
  <1> QED BY <1>1, <1>2, <1>3, <1>4, <1>5, <1>6, <1>7, <1>8 DEF Next
-----------------------------------------------------------------------------
(* What the pieces of actions do to the pairs. *)

\* A new pair was in nobody's hands, and no chain began with it.
LEMMA IssueStep ==
  ASSUME TypeOK, IssueBook, NEW p \in Pairs, NEW first \in Pairs, Issue(p, first),
         first = p \/ token[first] # "unissued"
  PROVE  /\ \A o \in Pairs : token'[o] = "unissued" <=> login'[o] = None
         /\ \A o \in Pairs : login'[o] # None => token'[login'[o]] # "unissued"
         /\ \A o \in Pairs : token[o] # "unissued" => token'[o] # "unissued"
         /\ token'[p] # "unissued"
  BY NoneIsApart DEF TypeOK, IssueBook, Issue, TokenState

\* Only issued pairs are held, whatever is issued and whoever receives it.
LEMMA IssueBookStep ==
  ASSUME TypeOK, IssueBook, Next
  PROVE  IssueBook'
  <1> USE NoneIsApart DEF TypeOK, IssueBook, TokenState, Open, SigningIn, server,
          calls, refreshing
  <1>1. ASSUME NEW c \in Calls, SignIn(c) PROVE IssueBook'
    BY <1>1 DEF SignIn
  <1>2. ASSUME NEW c \in Calls, NEW k \in Uses, Request(c, k) PROVE IssueBook'
    BY <1>2 DEF Request
  <1>3. ASSUME NEW c \in Calls, Goes(c) PROVE IssueBook'
    <2>1. CASE StartRefresh(c)
      BY <2>1 DEF StartRefresh, Begin
    <2>2. CASE JoinRefresh(c)
      BY <2>2 DEF JoinRefresh
    <2>3. CASE NoRefresh(c)
      BY <2>3 DEF NoRefresh
    <2>4. CASE Return(c)
      BY <2>4 DEF Return, Stored
    <2> QED BY <1>3, <2>1, <2>2, <2>3, <2>4 DEF Goes
  <1>4. ASSUME NEW c \in Calls, Answers(c) PROVE IssueBook'
    <2>1. CASE SignInServed(c)
      <3>1. PICK p \in Pairs : Issue(p, p) /\ current' = [current EXCEPT ![c] = p]
        BY <2>1 DEF SignInServed
      <3> QED BY <2>1, <3>1, IssueStep DEF SignInServed
    <2>2. CASE Served(c)
      BY <2>2 DEF Served, Answered, Handled
    <2>3. CASE Unauthorized(c)
      BY <2>3 DEF Unauthorized, Answered
    <2>4. CASE CallFails(c)
      BY <2>4 DEF CallFails, Answered, Handled
    <2> QED BY <1>4, <2>1, <2>2, <2>3, <2>4 DEF Answers
  <1>5. CASE Settles
    <2>1. CASE RefreshRefused
      BY <2>1 DEF RefreshRefused, Settle, Close
    <2>2. CASE RefreshAborted
      BY <2>2 DEF RefreshAborted, Settle
    <2>3. CASE RefreshAnswered
      BY <2>3 DEF RefreshAnswered
    <2>4. CASE RefreshRead
      BY <2>4 DEF RefreshRead, Settle, Close
    <2>5. CASE RefreshBodyLost
      BY <2>5 DEF RefreshBodyLost, Settle, Close
    <2> QED BY <1>5, <2>1, <2>2, <2>3, <2>4, <2>5 DEF Settles
  <1>6. ASSUME NEW r \in Requests, Handles(r) PROVE IssueBook'
    <2>1. CASE Lookup(r)
      BY <2>1 DEF Lookup
    <2>2. CASE Revoke(r)
      BY <2>2 DEF Revoke
    <2>3. CASE IssueFresh(r)
      <3>1. PICK p \in Pairs :
              Issue(p, login[carried[r]]) /\ carried' = [carried EXCEPT ![r] = p]
        BY <2>3 DEF IssueFresh
      <3>2. login[carried[r]] \in Pairs /\ token[login[carried[r]]] # "unissued"
        BY <2>3 DEF IssueFresh
      <3> QED BY <2>3, <3>1, <3>2, IssueStep DEF IssueFresh
    <2>4. CASE HandlerFails(r)
      BY <2>4 DEF HandlerFails
    <2> QED BY <1>6, <2>1, <2>2, <2>3, <2>4 DEF Handles
  <1>7. ASSUME NEW p \in Pairs, AccessExpires(p) PROVE IssueBook'
    BY <1>7 DEF AccessExpires
  <1>8. CASE Reload
    BY <1>8 DEF Reload
  <1> QED BY <1>1, <1>2, <1>3, <1>4, <1>5, <1>6, <1>7, <1>8 DEF Next

-----------------------------------------------------------------------------
\* Pairs that were issued keep their chain; the next one joins `first`'s.
LEMMA FreshPair ==
  ASSUME TypeOK, NEW p \in Pairs, NEW first \in Pairs, Issue(p, first)
  PROVE  /\ token[p] = "unissued" /\ token'[p] = "valid" /\ login'[p] = first
         /\ \A o \in Pairs \ {p} : token'[o] = token[o] /\ login'[o] = login[o]
  BY DEF TypeOK, Issue

\* What went wrong once is remembered.
LEMMA HistoryGrows ==
  ASSUME TypeOK, Next
  PROVE  (lost => lost') /\ (restored => restored')
  BY DEF TypeOK, Next, SignIn, Request, Goes, StartRefresh, Begin, JoinRefresh,
         NoRefresh, Return, Answers, SignInServed, Served, Unauthorized, CallFails,
         Answered, Settles, RefreshRefused, RefreshAborted, RefreshAnswered,
         RefreshRead, RefreshBodyLost, Handles, Lookup, Revoke, IssueFresh,
         HandlerFails, AccessExpires, Reload, history

\* Chains stay apart, as the session is dropped with a refresh that is given up.
LEMMA ChainBookStep ==
  ASSUME TypeOK, IssueBook, ChainBook, UseBook, Next, ~lost', ~restored'
  PROVE  ChainBook'
  <1> USE NoneIsApart DEF TypeOK, IssueBook, ChainBook, TokenState, Open, SigningIn,
          server, calls, refreshing, history
  <1>1. ASSUME NEW c \in Calls, SignIn(c) PROVE ChainBook'
    BY <1>1 DEF SignIn
  <1>2. ASSUME NEW c \in Calls, NEW k \in Uses, Request(c, k) PROVE ChainBook'
    BY <1>2 DEF Request
  <1>3. ASSUME NEW c \in Calls, Goes(c) PROVE ChainBook'
    <2>1. CASE StartRefresh(c)
      BY <2>1 DEF StartRefresh, Begin
    <2>2. CASE JoinRefresh(c)
      BY <2>2 DEF JoinRefresh
    <2>3. CASE NoRefresh(c)
      BY <2>3 DEF NoRefresh
    <2>4. CASE Return(c)
      <3>1. \A d \in Calls : SigningIn(d)' => SigningIn(d) /\ d # c /\ current'[d] = current[d]
        BY <2>4 DEF Return
      <3>2. CASE kind[c] = "login" /\ pc[c] = "ok"
        <4>1. session' = current[c]
          BY <2>4, <3>2 DEF Return, Stored
        <4> QED BY <2>4, <3>1, <3>2, <4>1 DEF Return
      <3>3. CASE ~(kind[c] = "login" /\ pc[c] = "ok")
        <4>1. session' \in {None, session}
          BY <2>4, <3>3 DEF Return, Stored
        <4> QED BY <2>4, <3>1, <4>1 DEF Return
      <3> QED BY <3>2, <3>3
    <2> QED BY <1>3, <2>1, <2>2, <2>3, <2>4 DEF Goes
  <1>4. ASSUME NEW c \in Calls, Answers(c) PROVE ChainBook'
    <2>1. CASE SignInServed(c)
      <3>1. PICK p \in Pairs : Issue(p, p) /\ current' = [current EXCEPT ![c] = p]
        BY <2>1 DEF SignInServed
      <3> QED BY <2>1, <3>1, FreshPair DEF SignInServed
    <2>2. CASE Served(c)
      BY <2>2 DEF Served, Answered, Handled
    <2>3. CASE Unauthorized(c)
      BY <2>3 DEF Unauthorized, Answered
    <2>4. CASE CallFails(c)
      BY <2>4 DEF CallFails, Answered, Handled
    <2> QED BY <1>4, <2>1, <2>2, <2>3, <2>4 DEF Answers
  <1>5. CASE Settles
    <2>1. CASE RefreshRefused
      BY <2>1 DEF RefreshRefused, Settle, Close
    <2>2. CASE RefreshAborted
      BY <2>2 DEF RefreshAborted, Settle
    <2>3. CASE RefreshAnswered
      BY <2>3 DEF RefreshAnswered
    <2>4. CASE RefreshRead
      BY <2>4 DEF RefreshRead, Settle, Close
    <2>5. CASE RefreshBodyLost
      BY <2>5 DEF RefreshBodyLost, Settle, Close
    <2> QED BY <1>5, <2>1, <2>2, <2>3, <2>4, <2>5 DEF Settles
  <1>6. ASSUME NEW r \in Requests, Handles(r) PROVE ChainBook'
    <2>1. CASE Lookup(r)
      BY <2>1 DEF Lookup
    <2>2. CASE Revoke(r)
      BY <2>2 DEF Revoke
    <2>3. CASE IssueFresh(r)
      <3>1. PICK p \in Pairs :
              Issue(p, login[carried[r]]) /\ carried' = [carried EXCEPT ![r] = p]
        BY <2>3 DEF IssueFresh
      <3> QED BY <2>3, <3>1, FreshPair DEF IssueFresh
    <2>4. CASE HandlerFails(r)
      BY <2>4 DEF HandlerFails
    <2> QED BY <1>6, <2>1, <2>2, <2>3, <2>4 DEF Handles
  <1>7. ASSUME NEW p \in Pairs, AccessExpires(p) PROVE ChainBook'
    BY <1>7 DEF AccessExpires
  <1>8. CASE Reload
    BY <1>8 DEF Reload
  <1> QED BY <1>1, <1>2, <1>3, <1>4, <1>5, <1>6, <1>7, <1>8 DEF Next

\* A chain has at most one valid pair, and none while its next one is due.
LEMMA UseBookStep ==
  ASSUME TypeOK, IssueBook, ChainBook, UseBook, Next, ~lost', ~restored'
  PROVE  UseBook'
  <1> USE NoneIsApart DEF TypeOK, IssueBook, ChainBook, UseBook, OneValid,
          BetweenWrites, NotUsed, TokenState, Open, SigningIn, server, calls, refreshing, history
  <1>1. ASSUME NEW c \in Calls, SignIn(c) PROVE UseBook'
    BY <1>1 DEF SignIn
  <1>2. ASSUME NEW c \in Calls, NEW k \in Uses, Request(c, k) PROVE UseBook'
    BY <1>2 DEF Request
  <1>3. ASSUME NEW c \in Calls, Goes(c) PROVE UseBook'
    <2>1. CASE StartRefresh(c)
      BY <2>1 DEF StartRefresh, Begin
    <2>2. CASE JoinRefresh(c)
      BY <2>2 DEF JoinRefresh
    <2>3. CASE NoRefresh(c)
      BY <2>3 DEF NoRefresh
    <2>4. CASE Return(c)
      BY <2>4 DEF Return, Stored
    <2> QED BY <1>3, <2>1, <2>2, <2>3, <2>4 DEF Goes
  <1>4. ASSUME NEW c \in Calls, Answers(c) PROVE UseBook'
    <2>1. CASE SignInServed(c)
      <3>1. PICK p \in Pairs : Issue(p, p) /\ current' = [current EXCEPT ![c] = p]
        BY <2>1 DEF SignInServed
      <3>2. \A o \in Pairs \ {p} :
              token'[o] = token[o] /\ login'[o] = login[o] /\ login'[o] # p
        BY <3>1, FreshPair
      <3>3. token'[p] = "valid" /\ login'[p] = p
        BY <3>1, FreshPair
      <3>4. \A r \in Requests : Open(r) => carried[r] \in Pairs \ {p}
        BY <3>1, FreshPair
      <3>5. session # None => session \in Pairs \ {p}
        BY <3>1, FreshPair
      <3>6. \A d \in Calls : SigningIn(d)' => d = c \/
              (SigningIn(d) /\ current'[d] = current[d] /\ current[d] \in Pairs \ {p})
        BY <2>1, <3>1, FreshPair DEF SignInServed
      <3>7. current'[c] = p
        BY <3>1
      <3>8. OneValid'
        BY <3>2, <3>3
      <3>9. BetweenWrites'
        BY <2>1, <3>2, <3>3, <3>4 DEF SignInServed
      <3>10. NotUsed'
        BY <2>1, <3>2, <3>3, <3>4, <3>5, <3>6, <3>7 DEF SignInServed
      <3> QED BY <3>8, <3>9, <3>10
    <2>2. CASE Served(c)
      BY <2>2 DEF Served, Answered, Handled
    <2>3. CASE Unauthorized(c)
      BY <2>3 DEF Unauthorized, Answered
    <2>4. CASE CallFails(c)
      <3>1. \A p \in Pairs : token'[p] = token[p] \/ token'[p] = "loggedOut"
        BY <2>4 DEF CallFails, Handled
      <3>2. \A d \in Calls : SigningIn(d)' => SigningIn(d)
        BY <2>4 DEF CallFails, Answered
      <3> QED BY <2>4, <3>1, <3>2 DEF CallFails, Answered
    <2> QED BY <1>4, <2>1, <2>2, <2>3, <2>4 DEF Answers
  <1>5. CASE Settles
    <2>1. CASE RefreshRefused
      BY <2>1 DEF RefreshRefused, Settle, Close
    <2>2. CASE RefreshAborted
      BY <2>2 DEF RefreshAborted, Settle
    <2>3. CASE RefreshAnswered
      BY <2>3 DEF RefreshAnswered
    <2>4. CASE RefreshRead
      <3>1. token[carried[refreshPromise]] # "rotated"
        BY <2>4 DEF RefreshRead
      <3>2. \A d \in Calls : SigningIn(d)' => SigningIn(d)
        BY <2>4 DEF RefreshRead, Settle
      <3> QED BY <2>4, <3>1, <3>2 DEF RefreshRead, Settle, Close
    <2>5. CASE RefreshBodyLost
      BY <2>5 DEF RefreshBodyLost, Settle, Close
    <2> QED BY <1>5, <2>1, <2>2, <2>3, <2>4, <2>5 DEF Settles
  <1>6. ASSUME NEW r \in Requests, Handles(r) PROVE UseBook'
    <2>1. CASE Lookup(r)
      BY <2>1 DEF Lookup
    <2>2. CASE Revoke(r)
      BY <2>2 DEF Revoke
    <2>3. CASE IssueFresh(r)
      <3>1. PICK p \in Pairs :
              Issue(p, login[carried[r]]) /\ carried' = [carried EXCEPT ![r] = p]
        BY <2>3 DEF IssueFresh
      <3>2. carried[r] \in Pairs /\ login[carried[r]] \in Pairs
        BY <2>3 DEF IssueFresh
      <3>3. /\ \A o \in Pairs \ {p} : token'[o] = token[o] /\ login'[o] = login[o]
            /\ token'[p] = "valid" /\ login'[p] = login[carried[r]]
        BY <3>1, <3>2, FreshPair
      <3>4. \A o \in Requests \ {r} :
              /\ carried'[o] = carried[o] /\ request'[o] = request[o]
              /\ Open(o) => carried[o] # p /\ login[carried[o]] # login[carried[r]]
        BY <2>3, <3>1, <3>2, FreshPair DEF IssueFresh
      <3>5. OneValid'
        BY <2>3, <3>3 DEF IssueFresh
      <3>6. BetweenWrites'
        BY <2>3, <3>1, <3>3, <3>4 DEF IssueFresh
      <3>7. NotUsed'
        BY <2>3, <3>1, <3>2, <3>3, <3>4, FreshPair DEF IssueFresh
      <3> QED BY <3>5, <3>6, <3>7
    <2>4. CASE HandlerFails(r)
      BY <2>4 DEF HandlerFails
    <2> QED BY <1>6, <2>1, <2>2, <2>3, <2>4 DEF Handles
  <1>7. ASSUME NEW p \in Pairs, AccessExpires(p) PROVE UseBook'
    BY <1>7 DEF AccessExpires
  <1>8. CASE Reload
    BY <1>8 DEF Reload
  <1> QED BY <1>1, <1>2, <1>3, <1>4, <1>5, <1>6, <1>7, <1>8 DEF Next

-----------------------------------------------------------------------------
\* The inductive invariant is kept.
LEMMA IInvStep ==
  ASSUME IInv, [Next]_vars
  PROVE  IInv'
  <1>1. CASE Next
    <2>1. TypeOK'
      BY <1>1, TypeStep DEF IInv
    <2>2. IssueBook'
      BY <1>1, IssueBookStep DEF IInv, Custody
    <2>3. ASSUME ~lost', ~restored' PROVE ChainBook' /\ UseBook'
      <3>1. ~lost /\ ~restored
        BY <1>1, <2>3, HistoryGrows DEF IInv
      <3> QED BY <1>1, <2>3, <3>1, ChainBookStep, UseBookStep DEF IInv, Custody
    <2> QED BY <2>1, <2>2, <2>3 DEF IInv, Custody
  <1>2. CASE UNCHANGED vars
    BY <1>2 DEF vars, server, calls, refreshing, history, IInv, TypeOK, Custody,
                IssueBook, ChainBook, UseBook, OneValid, BetweenWrites, NotUsed,
                Open, SigningIn
  <1> QED BY <1>1, <1>2

\* Tokens, sessions, calls and requests stay in their ranges, and a request
\* carries a pair exactly while it is open.
THEOREM TypeCorrect == Spec => []TypeOK
  <1>1. IInv => TypeOK
    BY DEF IInv
  <1> QED BY InitIInv, IInvStep, <1>1, PTL DEF Spec

\* Session, refreshes and sign-ins hold chains of their own.
THEOREM PairsAreInCustody == Spec => []Custody
  <1>1. IInv => Custody
    BY DEF IInv
  <1> QED BY InitIInv, IInvStep, <1>1, PTL DEF Spec

\* However many calls are refused, no refresh is refused because its token was
\* used before.
THEOREM RefreshesAreFresh == Spec => []NoStaleRefresh
  <1>1. IInv => NoStaleRefresh
    BY NoneIsApart
    DEF IInv, TypeOK, Custody, UseBook, NotUsed, Open, NoStaleRefresh,
        NoSpuriousLogout, ReuseRefused
  <1> QED BY InitIInv, IInvStep, <1>1, PTL DEF Spec

\* A login has at most one valid refresh token, however its refreshes, given up
\* or not, interleave with logouts and other logins.
THEOREM OneTokenIsValid == Spec => []OneValidPerLogin
  <1>1. IInv => OneValidPerLogin
    BY DEF IInv, Custody, UseBook, OneValidPerLogin
  <1> QED BY InitIInv, IInvStep, <1>1, PTL DEF Spec
-----------------------------------------------------------------------------
(* The line of pairs *)

\* The pair that is issued is the newest of its login, and that of no other.
LEMMA IssueIsNewest ==
  ASSUME TypeOK, IssueBook, IssueOrder, NEW p \in Pairs, NEW first \in Pairs, Issue(p, first)
  PROVE  /\ p \in Newest'
         /\ \A o \in Pairs :
              token[o] # "unissued" /\ o \in Newest /\ login[o] # first => o \in Newest'
         /\ \A o, q \in Pairs : q < o /\ token'[o] # "unissued" => token'[q] # "unissued"
  <1>1. /\ token[p] = "unissued" /\ token'[p] = "valid" /\ login'[p] = first
        /\ \A o \in Pairs \ {p} : token'[o] = token[o] /\ login'[o] = login[o]
    BY FreshPair
  <1>2. \A o \in Pairs : o < p => token[o] # "unissued"
    BY DEF Issue
  <1>3. \A o \in Pairs : p < o => token[o] = "unissued"
    BY <1>1 DEF IssueOrder
  <1>4. \A o \in Pairs : token'[o] # "unissued" => o <= p
    BY <1>1, <1>3 DEF Pairs
  <1>5. p \in Newest'
    BY <1>1, <1>4, NoneIsApart DEF Newest, IssueBook
  <1>6. \A o \in Pairs :
          token[o] # "unissued" /\ o \in Newest /\ login[o] # first => o \in Newest'
    BY <1>1 DEF Newest
  <1>7. \A o, q \in Pairs : q < o /\ token'[o] # "unissued" => token'[q] # "unissued"
    BY <1>1, <1>2, <1>4 DEF Pairs
  <1> QED BY <1>5, <1>6, <1>7

\* Pairs are issued in their order, and a refresh issues after it revoked.
LEMMA IssueOrderStep ==
  ASSUME TypeOK, IssueBook, IssueOrder, Next
  PROVE  IssueOrder'
  <1> USE NoneIsApart DEF TypeOK, IssueOrder, TokenState, server, calls, refreshing, history
  <1>1. ASSUME NEW c \in Calls, SignIn(c) PROVE IssueOrder'
    BY <1>1 DEF SignIn
  <1>2. ASSUME NEW c \in Calls, NEW k \in Uses, Request(c, k) PROVE IssueOrder'
    BY <1>2 DEF Request
  <1>3. ASSUME NEW c \in Calls, Goes(c) PROVE IssueOrder'
    <2>1. CASE StartRefresh(c)
      BY <2>1 DEF StartRefresh, Begin
    <2>2. CASE JoinRefresh(c)
      BY <2>2 DEF JoinRefresh
    <2>3. CASE NoRefresh(c)
      BY <2>3 DEF NoRefresh
    <2>4. CASE Return(c)
      BY <2>4 DEF Return
    <2> QED BY <1>3, <2>1, <2>2, <2>3, <2>4 DEF Goes
  <1>4. ASSUME NEW c \in Calls, Answers(c) PROVE IssueOrder'
    <2>1. CASE SignInServed(c)
      <3>1. PICK p \in Pairs : Issue(p, p) /\ current' = [current EXCEPT ![c] = p]
        BY <2>1 DEF SignInServed
      <3>2. \A r \in Requests : request[r] = "issue" => carried[r] \in Pairs \ {p}
        BY <3>1, FreshPair DEF IssueBook, Open
      <3>3. \A r \in Requests : request'[r] = "issue" => token'[carried'[r]] # "valid"
        BY <2>1, <3>1, <3>2, FreshPair DEF SignInServed
      <3> QED BY <3>1, <3>3, IssueIsNewest
    <2>2. Handled(c) \in [Pairs -> TokenState] /\
          \A p \in Pairs : Handled(c)[p] = token[p] \/ (token[p] = "valid" /\ Handled(c)[p] = "loggedOut")
      BY DEF Handled
    <2>3. CASE Served(c)
      BY <2>2, <2>3 DEF Served, Answered
    <2>4. CASE Unauthorized(c)
      BY <2>4 DEF Unauthorized, Answered
    <2>5. CASE CallFails(c)
      BY <2>2, <2>5 DEF CallFails, Answered
    <2> QED BY <1>4, <2>1, <2>3, <2>4, <2>5 DEF Answers
  <1>5. CASE Settles
    <2>1. CASE RefreshRefused
      BY <2>1 DEF RefreshRefused, Settle, Close
    <2>2. CASE RefreshAborted
      BY <2>2 DEF RefreshAborted, Settle
    <2>3. CASE RefreshAnswered
      BY <2>3 DEF RefreshAnswered
    <2>4. CASE RefreshRead
      BY <2>4 DEF RefreshRead, Settle, Close
    <2>5. CASE RefreshBodyLost
      BY <2>5 DEF RefreshBodyLost, Settle, Close
    <2> QED BY <1>5, <2>1, <2>2, <2>3, <2>4, <2>5 DEF Settles
  <1>6. ASSUME NEW r \in Requests, Handles(r) PROVE IssueOrder'
    <2>1. CASE Lookup(r)
      BY <2>1 DEF Lookup
    <2>2. CASE Revoke(r)
      <3>1. carried[r] \in Pairs /\ token[carried[r]] # "unissued"
        BY <2>2 DEF Revoke, IssueBook, Open
      <3> QED BY <2>2, <3>1 DEF Revoke
    <2>3. CASE IssueFresh(r)
      <3>1. PICK p \in Pairs :
              Issue(p, login[carried[r]]) /\ carried' = [carried EXCEPT ![r] = p]
        BY <2>3 DEF IssueFresh
      <3>2. carried[r] \in Pairs /\ login[carried[r]] \in Pairs
        BY <2>3 DEF IssueFresh, IssueBook, Open
      <3>3. \A o \in Requests : request'[o] = "issue" => o # r /\ carried[o] \in Pairs \ {p}
        BY <2>3, <3>1, <3>2, FreshPair DEF IssueFresh, IssueBook, Open
      <3>4. \A o \in Requests : request'[o] = "issue" => token'[carried'[o]] # "valid"
        BY <2>3, <3>1, <3>2, <3>3, FreshPair DEF IssueFresh
      <3> QED BY <3>1, <3>2, <3>4, IssueIsNewest
    <2>4. CASE HandlerFails(r)
      BY <2>4 DEF HandlerFails
    <2> QED BY <1>6, <2>1, <2>2, <2>3, <2>4 DEF Handles
  <1>7. ASSUME NEW p \in Pairs, AccessExpires(p) PROVE IssueOrder'
    BY <1>7 DEF AccessExpires
  <1>8. CASE Reload
    BY <1>8 DEF Reload
  <1> QED BY <1>1, <1>2, <1>3, <1>4, <1>5, <1>6, <1>7, <1>8 DEF Next

\* Whoever holds a pair goes on holding the newest one.
LEMMA NewestBookStep ==
  ASSUME TypeOK, IssueBook, ChainBook, IssueOrder, NewestBook, Next, ~lost', ~restored'
  PROVE  NewestBook'
  <1> USE NoneIsApart DEF TypeOK, NewestBook, Newest, TokenState, Open, SigningIn,
          server, calls, refreshing, history
  <1>1. ASSUME NEW c \in Calls, SignIn(c) PROVE NewestBook'
    BY <1>1 DEF SignIn
  <1>2. ASSUME NEW c \in Calls, NEW k \in Uses, Request(c, k) PROVE NewestBook'
    BY <1>2 DEF Request
  <1>3. ASSUME NEW c \in Calls, Goes(c) PROVE NewestBook'
    <2>1. CASE StartRefresh(c)
      BY <2>1 DEF StartRefresh, Begin
    <2>2. CASE JoinRefresh(c)
      BY <2>2 DEF JoinRefresh
    <2>3. CASE NoRefresh(c)
      BY <2>3 DEF NoRefresh
    <2>4. CASE Return(c)
      <3>1. \A d \in Calls : SigningIn(d)' => SigningIn(d) /\ d # c /\ current'[d] = current[d]
        BY <2>4 DEF Return
      <3>2. session' \in {None, session} \/ (SigningIn(c) /\ session' = current[c])
        BY <2>4 DEF Return, Stored
      <3> QED BY <2>4, <3>1, <3>2 DEF Return
    <2> QED BY <1>3, <2>1, <2>2, <2>3, <2>4 DEF Goes
  <1>4. ASSUME NEW c \in Calls, Answers(c) PROVE NewestBook'
    <2>1. CASE SignInServed(c)
      <3>1. PICK p \in Pairs : Issue(p, p) /\ current' = [current EXCEPT ![c] = p]
        BY <2>1 DEF SignInServed
      <3>2. \A o \in Pairs : token[o] # "unissued" =>
              o # p /\ login[o] # p /\ login'[o] = login[o] /\ (o \in Newest => o \in Newest')
        BY <3>1, FreshPair, IssueIsNewest DEF IssueBook
      <3>3. p \in Newest'
        BY <3>1, IssueIsNewest
      <3> HIDE DEF Newest
      <3>4. \A r \in Requests : Open(r)' => carried'[r] \in Newest'
        BY <2>1, <3>2 DEF SignInServed, IssueBook
      <3>5. \A d \in Calls : SigningIn(d)' => current'[d] \in Newest'
        BY <2>1, <3>1, <3>2, <3>3 DEF SignInServed, IssueBook
      <3>6. session' # None =>
              \/ session' \in Newest'
              \/ /\ refreshPromise' # None /\ Open(refreshPromise)'
                 /\ login'[carried'[refreshPromise']] = login'[session']
        BY <2>1, <3>2 DEF SignInServed, IssueBook
      <3> QED BY <3>4, <3>5, <3>6
    <2>2. CASE Served(c)
      BY <2>2 DEF Served, Answered
    <2>3. CASE Unauthorized(c)
      BY <2>3 DEF Unauthorized, Answered
    <2>4. CASE CallFails(c)
      BY <2>4 DEF CallFails, Answered
    <2> QED BY <1>4, <2>1, <2>2, <2>3, <2>4 DEF Answers
  <1>5. CASE Settles
    <2>1. CASE RefreshRefused
      BY <2>1 DEF RefreshRefused, Settle, Close
    <2>2. CASE RefreshAborted
      BY <2>2 DEF RefreshAborted, Settle
    <2>3. CASE RefreshAnswered
      BY <2>3 DEF RefreshAnswered
    <2>4. CASE RefreshRead
      BY <2>4 DEF RefreshRead, Settle, Close
    <2>5. CASE RefreshBodyLost
      BY <2>5 DEF RefreshBodyLost, Settle, Close
    <2> QED BY <1>5, <2>1, <2>2, <2>3, <2>4, <2>5 DEF Settles
  <1>6. ASSUME NEW r \in Requests, Handles(r) PROVE NewestBook'
    <2>1. CASE Lookup(r)
      BY <2>1 DEF Lookup
    <2>2. CASE Revoke(r)
      BY <2>2 DEF Revoke
    <2>3. CASE IssueFresh(r)
      <3>1. PICK p \in Pairs :
              Issue(p, login[carried[r]]) /\ carried' = [carried EXCEPT ![r] = p]
        BY <2>3 DEF IssueFresh
      <3>2. carried[r] \in Pairs /\ login[carried[r]] \in Pairs
        BY <2>3 DEF IssueFresh, IssueBook
      <3>3. \A o \in Pairs : token[o] # "unissued" =>
              /\ o # p /\ login'[o] = login[o]
              /\ o \in Newest /\ login[o] # login[carried[r]] => o \in Newest'
        BY <3>1, <3>2, FreshPair, IssueIsNewest
      <3>4. p \in Newest' /\ login'[p] = login[carried[r]]
        BY <3>1, <3>2, FreshPair, IssueIsNewest
      <3>5. \A o \in Requests \ {r} :
              /\ carried'[o] = carried[o]
              /\ Open(o) => token[carried[o]] # "unissued" /\ login[carried[o]] # login[carried[r]]
        BY <2>3, <3>1, <3>2 DEF IssueFresh, IssueBook, ChainBook
      <3>6. carried'[r] = p
        BY <3>1
      <3> HIDE DEF Newest
      <3>7. \A o \in Requests : Open(o)' => carried'[o] \in Newest'
        BY <3>3, <3>4, <3>5, <3>6
      <3>8. \A d \in Calls : SigningIn(d)' => current'[d] \in Newest'
        BY <2>3, <3>2, <3>3 DEF IssueFresh, IssueBook, ChainBook
      <3>9. session' # None =>
              \/ session' \in Newest'
              \/ /\ refreshPromise' # None /\ Open(refreshPromise)'
                 /\ login'[carried'[refreshPromise']] = login'[session']
        <4>1. CASE session # None /\ login[session] = login[carried[r]]
          BY <2>3, <3>2, <3>3, <3>4, <3>6, <4>1 DEF IssueFresh, IssueBook, ChainBook
        <4>2. CASE session # None /\ login[session] # login[carried[r]]
          <5>1. CASE session \in Newest
            BY <2>3, <3>3, <4>2, <5>1 DEF IssueFresh, IssueBook
          <5>2. CASE /\ refreshPromise # None /\ Open(refreshPromise)
                     /\ login[carried[refreshPromise]] = login[session]
            BY <2>3, <3>3, <3>5, <4>2, <5>2 DEF IssueFresh, IssueBook
          <5> QED BY <4>2, <5>1, <5>2
        <4>3. CASE session = None
          BY <2>3, <4>3 DEF IssueFresh
        <4> QED BY <4>1, <4>2, <4>3
      <3> QED BY <3>7, <3>8, <3>9
    <2>4. CASE HandlerFails(r)
      BY <2>4 DEF HandlerFails
    <2> QED BY <1>6, <2>1, <2>2, <2>3, <2>4 DEF Handles
  <1>7. ASSUME NEW p \in Pairs, AccessExpires(p) PROVE NewestBook'
    BY <1>7 DEF AccessExpires
  <1>8. CASE Reload
    BY <1>8 DEF Reload
  <1> QED BY <1>1, <1>2, <1>3, <1>4, <1>5, <1>6, <1>7, <1>8 DEF Next
-----------------------------------------------------------------------------
(* The promise *)

\* The part of the state the promise speaks of.
promised == <<token, login, session, lost, restored>>

\* A step that leaves that part alone is invisible to it.
LEMMA UnpromisedStep ==
  ASSUME UNCHANGED promised
  PROVE  UNCHANGED Rotation!rotationVars
  BY DEF promised, Rotation!rotationVars

\* One pair is used, or was used before.
LEMMA UseImplements ==
  ASSUME TypeOK, NEW p \in Pairs, NEW step \in TokenState \ {"valid"},
         token' = [token EXCEPT ![p] = step], UNCHANGED <<login, session, lost, restored>>
  PROVE  [Rotation!RotationNext]_(Rotation!rotationVars)
  <1> DEFINE V == {q \in Pairs : token[q] = "valid"}
  <1>1. {q \in Pairs : token'[q] = "valid"} = V \ {p}
    BY DEF TypeOK
  <1>2. CASE p \in V
    <2>1. Rotation!IsUsed(p)
      BY <1>1, <1>2 DEF Rotation!IsUsed
    <2> QED BY <2>1 DEF Rotation!RotationNext, Pairs
  <1>3. CASE p \notin V
    BY <1>1, <1>3 DEF Rotation!rotationVars
  <1> QED BY <1>2, <1>3

\* A pair is issued.
LEMMA IssueImplements ==
  ASSUME TypeOK, IssueBook, IssueOrder, NEW p \in Pairs, NEW first \in Pairs,
         Issue(p, first), UNCHANGED <<session, lost, restored>>
  PROVE  Rotation!Add(p, first)
  <1>1. {q \in Pairs : token'[q] = "valid"} = {q \in Pairs : token[q] = "valid"} \cup {p}
    BY FreshPair
  <1>2. \A q \in 1..MaxPairs : login[q] # 0 <=> q < p
    <2> TAKE q \in 1..MaxPairs
    <2>1. token[p] = "unissued" /\ (q < p => token[q] # "unissued")
      BY FreshPair DEF Issue, Pairs
    <2>2. p < q => token[q] = "unissued"
      BY <2>1 DEF IssueOrder, Pairs
    <2>3. token[q] = "unissued" <=> q >= p
      BY <2>1, <2>2 DEF Pairs
    <2> QED BY <2>3 DEF IssueBook, None, Pairs
  <1> QED BY <1>1, <1>2 DEF Rotation!Add, Issue

\* The tab takes up a pair: the newest one, or it has lost track.
LEMMA TakeImplements ==
  ASSUME TypeOK, IssueBook, session' \in Pairs \cup {None}, UNCHANGED <<token, login>>,
         session' # None => token[session'] # "unissued",
         (lost => lost') /\ (restored => restored'),
         \/ lost' \/ restored' \/ session' = None \/ session' \in Newest
  PROVE  Rotation!RotationNext
  <1> DEFINE p == session'
  <1>1. p \in 0..MaxPairs /\ (p = 0 \/ Rotation!Issued(p))
    BY SessionAssumption DEF IssueBook, None, Pairs, Rotation!Issued
  <1>2. (lost' \/ restored') \/ p = 0 \/ Rotation!Newest(p)
    BY <1>1 DEF Newest, None, Pairs, Rotation!Newest
  <1>3. Rotation!Takes(p)
    BY <1>1, <1>2 DEF Rotation!Takes
  <1> QED BY <1>1, <1>3 DEF Rotation!RotationNext

\* Every step of WebSession is a step of the promise, or invisible to it.
LEMMA RotationStep ==
  ASSUME TypeOK, Custody, LineBook, TypeOK', IssueBook', Next
  PROVE  [Rotation!RotationNext]_(Rotation!rotationVars)
  <1> DEFINE Kept == [Rotation!RotationNext]_(Rotation!rotationVars)
  <1>1. IssueBook /\ IssueOrder /\ (lost \/ restored \/ (ChainBook /\ NewestBook))
    BY DEF Custody, LineBook
  <1>2. UNCHANGED promised => Kept
    BY UnpromisedStep
  <1>3. Rotation!RotationNext => Kept
    OBVIOUS
  <1> HIDE DEF Kept
  <1> USE DEF server, calls, refreshing, history, promised
  <1>4. ASSUME NEW c \in Calls, SignIn(c) PROVE Kept
    BY <1>2, <1>4 DEF SignIn
  <1>5. ASSUME NEW c \in Calls, NEW k \in Uses, Request(c, k) PROVE Kept
    BY <1>2, <1>5 DEF Request
  <1>6. ASSUME NEW c \in Calls, Goes(c) PROVE Kept
    <2>1. CASE StartRefresh(c) \/ JoinRefresh(c) \/ NoRefresh(c)
      BY <1>2, <2>1 DEF StartRefresh, Begin, JoinRefresh, NoRefresh
    <2>2. CASE Return(c)
      <3>1. session' \in Pairs \cup {None} /\ UNCHANGED <<token, login, lost>>
        BY <2>2 DEF Return, TypeOK
      <3>2. session' # None => token[session'] # "unissued"
        BY <3>1 DEF IssueBook
      <3>3. restored => restored'
        BY <2>2 DEF Return
      <3>4. CASE session' = session
        <4>1. (restored' <=> restored) \/ restored'
          BY <2>2 DEF Return
        <4>2. CASE restored' = restored
          BY <1>2, <3>1, <3>4, <4>2
        <4>3. CASE restored' # restored
          <5>1. restored'
            BY <2>2, <4>3 DEF Return, TypeOK
          <5> QED BY <1>1, <1>3, <3>1, <3>2, <3>3, <5>1, TakeImplements
        <4> QED BY <4>2, <4>3
      <3>5. CASE session' # session /\ ~(lost \/ restored) /\ ~restored'
        <4>1. session' = None \/ (SigningIn(c) /\ session' = current[c])
          BY <2>2, <3>5 DEF Return, Stored, SigningIn
        <4>2. session' = None \/ session' \in Newest
          BY <1>1, <3>5, <4>1 DEF NewestBook
        <4> QED BY <1>1, <1>3, <3>1, <3>2, <3>3, <4>2, TakeImplements
      <3>6. CASE lost' \/ restored'
        BY <1>1, <1>3, <3>1, <3>2, <3>3, <3>6, TakeImplements
      <3> QED BY <3>1, <3>3, <3>4, <3>5, <3>6
    <2> QED BY <1>6, <2>1, <2>2 DEF Goes
  <1>7. ASSUME NEW c \in Calls, Answers(c) PROVE Kept
    <2>1. CASE SignInServed(c)
      <3>1. PICK p \in Pairs : Issue(p, p)
        BY <2>1 DEF SignInServed
      <3>2. Rotation!Add(p, p)
        BY <1>1, <2>1, <3>1, IssueImplements DEF SignInServed
      <3>3. Rotation!RotationNext
        BY <3>2 DEF Rotation!RotationNext, Rotation!SignsIn, Pairs
      <3> QED BY <1>3, <3>3
    <2>2. CASE UNCHANGED <<token, login, session, lost, restored>>
      BY <1>2, <2>2
    <2>3. CASE /\ token' = [token EXCEPT ![current[c]] = "loggedOut"]
               /\ token[current[c]] = "valid" /\ current[c] # None
               /\ UNCHANGED <<login, session, lost, restored>>
      <3>1. current[c] \in Pairs /\ "loggedOut" \in TokenState \ {"valid"}
        BY <2>3 DEF TypeOK, TokenState
      <3> QED BY <2>3, <3>1, UseImplements DEF Kept
    <2>4. \/ Handled(c) = token
          \/ /\ Handled(c) = [token EXCEPT ![current[c]] = "loggedOut"]
             /\ token[current[c]] = "valid" /\ current[c] # None
      BY NoneIsApart DEF Handled, TypeOK
    <2>5. CASE token' \in {token, Handled(c)} /\ UNCHANGED <<login, session, lost, restored>>
      BY <2>2, <2>3, <2>4, <2>5
    <2>6. CASE Served(c)
      BY <2>6, <2>5 DEF Served, Answered
    <2>7. CASE Unauthorized(c)
      BY <2>2, <2>7 DEF Unauthorized, Answered
    <2>8. CASE CallFails(c)
      BY <2>8, <2>5 DEF CallFails, Answered
    <2> QED BY <1>7, <2>1, <2>6, <2>7, <2>8 DEF Answers
  <1>8. ASSUME Settles PROVE Kept
    <2>1. CASE RefreshRefused \/ RefreshAborted
      <3>1. session' = None /\ UNCHANGED <<token, login, lost, restored>>
        BY <2>1 DEF RefreshRefused, RefreshAborted, Settle
      <3> QED BY <1>1, <1>3, <3>1, TakeImplements
    <2>2. CASE RefreshAnswered
      <3>1. UNCHANGED promised
        BY <2>2 DEF RefreshAnswered
      <3> QED BY <1>2, <3>1
    <2>3. CASE RefreshRead
      <3>1. session' = carried[refreshPromise] /\ UNCHANGED <<token, login, lost, restored>>
        BY <2>3 DEF RefreshRead, Settle
      <3>2. refreshPromise \in Requests /\ Open(refreshPromise)
        BY <2>3 DEF RefreshRead, TypeOK, Open
      <3>3. session' \in Pairs /\ token[session'] # "unissued"
        BY <3>1, <3>2 DEF IssueBook, TypeOK, Custody, Open
      <3>4. lost \/ restored \/ session' \in Newest
        BY <1>1, <3>1, <3>2 DEF NewestBook
      <3> QED BY <1>1, <1>3, <3>1, <3>3, <3>4, TakeImplements
    <2>4. CASE RefreshBodyLost
      <3>1. lost' /\ UNCHANGED <<token, login, session, restored>>
        BY <2>4 DEF RefreshBodyLost, Settle
      <3>2. session' \in Pairs \cup {None} /\ (session' # None => token[session'] # "unissued")
        BY <1>1, <3>1 DEF TypeOK, IssueBook
      <3> QED BY <1>1, <1>3, <3>1, <3>2, TakeImplements
    <2> QED BY <1>8, <2>1, <2>2, <2>3, <2>4 DEF Settles
  <1>9. ASSUME NEW r \in Requests, Handles(r) PROVE Kept
    <2>1. CASE Lookup(r) \/ HandlerFails(r)
      BY <1>2, <2>1 DEF Lookup, HandlerFails
    <2>2. CASE Revoke(r)
      <3>1. carried[r] \in Pairs
        BY <2>2 DEF Revoke, TypeOK
      <3>2. PICK step \in {"loggedOut", "rotated"} : token' = [token EXCEPT ![carried[r]] = step]
        BY <2>2 DEF Revoke
      <3>3. step \in TokenState \ {"valid"} /\ UNCHANGED <<login, session, lost, restored>>
        BY <2>2 DEF Revoke, TokenState
      <3> QED BY <3>1, <3>2, <3>3, UseImplements DEF Kept
    <2>3. CASE IssueFresh(r)
      <3> DEFINE q == carried[r]
      <3>1. PICK p \in Pairs : Issue(p, login[q])
        BY <2>3 DEF IssueFresh
      <3>2. UNCHANGED <<session, lost, restored>>
        BY <2>3 DEF IssueFresh
      <3>3. request[r] = "issue" /\ Open(r)
        BY <2>3 DEF IssueFresh, TypeOK, Open
      <3>4. q \in Pairs /\ login[q] \in Pairs /\ login[q] # None
        BY <1>1, <3>3 DEF TypeOK, IssueBook, Open
      <3>5. token[q] # "valid"
        BY <1>1, <3>3 DEF IssueOrder
      <3>6. lost \/ restored \/ q \in Newest
        BY <1>1, <3>3 DEF NewestBook
      <3> HIDE DEF q
      <3>7. Rotation!Issued(q)
        BY <3>4 DEF Rotation!Issued, Pairs, None
      <3>8. (lost \/ restored) \/ Rotation!Newest(q)
        BY <3>6, <3>7 DEF Newest, Pairs, Rotation!Newest
      <3>9. Rotation!Add(p, login[q])
        <4>1. PICK first \in Pairs : first = login[q]
          BY <3>4
        <4>2. Issue(p, first)
          BY <3>1, <4>1
        <4>3. Rotation!Add(p, first)
          <5>1. IssueBook /\ IssueOrder
            BY <1>1
          <5> QED BY <3>2, <4>2, <5>1, IssueImplements
        <4> QED BY <4>1, <4>3 DEF Rotation!Add
      <3>10. Rotation!Renews(q, p)
        BY <3>5, <3>7, <3>8, <3>9 DEF Rotation!Renews
      <3>11. Rotation!RotationNext
        BY <3>4, <3>10 DEF Rotation!RotationNext, Pairs
      <3> QED BY <1>3, <3>11
    <2> QED BY <1>9, <2>1, <2>2, <2>3 DEF Handles
  <1>10. ASSUME NEW p \in Pairs, AccessExpires(p) PROVE Kept
    BY <1>2, <1>10 DEF AccessExpires
  <1>11. ASSUME Reload PROVE Kept
    <2>1. UNCHANGED <<token, login, session, restored>>
      BY <1>11 DEF Reload
    <2>2. CASE lost' = lost
      BY <1>2, <2>1, <2>2
    <2>3. CASE lost' # lost
      <3>1. lost'
        BY <1>11, <2>3 DEF Reload, TypeOK
      <3>2. Rotation!Spoils
        BY <2>1, <3>1 DEF Rotation!Spoils
      <3> QED BY <1>3, <3>2 DEF Rotation!RotationNext
    <2> QED BY <2>2, <2>3
  <1> QED BY <1>4, <1>5, <1>6, <1>7, <1>8, <1>9, <1>10, <1>11 DEF Next, Kept

\* The inductive invariant of the line of pairs.
LEMMA LineStep ==
  ASSUME IInv, LineBook, [Next]_vars
  PROVE  LineBook'
  <1>1. CASE Next
    <2>1. IssueOrder'
      BY <1>1, IssueOrderStep DEF IInv, Custody, LineBook
    <2>2. ASSUME ~lost', ~restored' PROVE NewestBook'
      <3>1. ~lost /\ ~restored
        BY <1>1, <2>2, HistoryGrows DEF IInv
      <3> QED BY <1>1, <2>2, <3>1, NewestBookStep DEF IInv, Custody, LineBook
    <2> QED BY <2>1, <2>2 DEF LineBook
  <1>2. CASE UNCHANGED vars
    BY <1>2 DEF vars, server, calls, refreshing, history, LineBook, IssueOrder, NewestBook,
                Newest, Open, SigningIn
  <1> QED BY <1>1, <1>2

\* Whatever calls, refreshes and handlers do, in whatever order, tokens are
\* rotated as TokenRotation promises.
THEOREM RotationIsKept == Spec => KeepsRotation
  <1>1. Init => LineBook
    <2> SUFFICES ASSUME Init PROVE LineBook
      OBVIOUS
    <2>1. 1 \in Pairs /\ \A p \in Pairs : p >= 1
      BY SessionAssumption DEF Pairs
    <2>2. IssueOrder
      BY <2>1 DEF Init, IssueOrder, Pairs
    <2>3. NewestBook
      BY <2>1, NoneIsApart DEF Init, NewestBook, Newest, Open, SigningIn, None, Pairs
    <2> QED BY <2>2, <2>3 DEF LineBook
  <1>2. Init => Rotation!RotationInit
    <2> SUFFICES ASSUME Init PROVE Rotation!RotationInit
      OBVIOUS
    <2>1. {p \in Pairs : token[p] = "valid"} = {1}
      BY SessionAssumption DEF Init, Pairs
    <2> QED BY <2>1 DEF Init, Rotation!RotationInit, Pairs, None
  <1>3. IInv /\ IInv' /\ LineBook /\ [Next]_vars => [Rotation!RotationNext]_(Rotation!rotationVars)
    <2>1. UNCHANGED vars => UNCHANGED Rotation!rotationVars
      BY UnpromisedStep DEF vars, server, history, promised
    <2> QED BY <2>1, RotationStep DEF IInv, Custody
  <1> QED BY <1>1, <1>2, <1>3, InitIInv, IInvStep, LineStep, PTL
          DEF Spec, KeepsRotation, Rotation!RotationSpec

\* In the promise, a login is a line: pairs come in their order, none before
\* the first of its line, and only the newest can be used.
LineInv ==
  /\ login \in [Pairs -> 0..MaxPairs]
  /\ \A p \in Pairs : login[p] <= p
  /\ Rotation!ValidIsNewest

\* Every action of the promise keeps that.
LEMMA LineInvStep ==
  ASSUME LineInv, [Rotation!RotationNext]_(Rotation!rotationVars)
  PROVE  LineInv'
  <1> DEFINE V == {p \in Pairs : token[p] = "valid"}
             s == lost \/ restored
  <1>1. ASSUME NEW p \in Pairs, NEW first \in 1..MaxPairs, first <= p, Rotation!Add(p, first),
               s \/ \A o \in V : login[o] # first
        PROVE  LineInv'
    <2>1. /\ login' = [login EXCEPT ![p] = first] /\ V' = V \cup {p} /\ s' = s
          /\ \A q \in Pairs : login[q] # 0 <=> q < p
      BY <1>1 DEF Rotation!Add, Pairs
    <2> HIDE DEF V, s
    <2>2. login' \in [Pairs -> 0..MaxPairs] /\ \A o \in Pairs : login'[o] <= o
      BY <1>1, <2>1 DEF LineInv, Pairs
    <2>3. ASSUME ~s, NEW o \in V PROVE Rotation!Newest(o)'
      BY <1>1, <2>1, <2>3 DEF LineInv, Rotation!ValidIsNewest, Rotation!Newest, Rotation!Issued, Pairs, V, s
    <2>4. Rotation!Newest(p)'
      BY <1>1, <2>1 DEF LineInv, Rotation!Newest, Rotation!Issued, Pairs
    <2> QED BY <2>1, <2>2, <2>3, <2>4 DEF LineInv, Rotation!ValidIsNewest, V, s
  <1>2. ASSUME NEW p \in Pairs, Rotation!SignsIn(p) PROVE LineInv'
    <2>1. \A o \in V : s \/ login[o] # p
      BY <1>2 DEF Rotation!SignsIn, Rotation!Add, LineInv, Rotation!ValidIsNewest, Rotation!Newest,
                  Rotation!Issued, Pairs
    <2> QED BY <1>1, <1>2, <2>1 DEF Rotation!SignsIn, Pairs
  <1>3. ASSUME NEW p \in Pairs, NEW q \in Pairs, Rotation!Renews(q, p) PROVE LineInv'
    <2>1. login[q] \in 1..MaxPairs /\ login[q] <= q /\ q < p
      BY <1>3 DEF Rotation!Renews, Rotation!Add, LineInv, Rotation!Issued, Pairs
    <2>2. s \/ \A o \in V : login[o] # login[q]
      BY <1>3 DEF Rotation!Renews, LineInv, Rotation!ValidIsNewest, Rotation!Newest, Rotation!Issued, Pairs
    <2>3. PICK first \in 1..MaxPairs : first = login[q]
      BY <2>1
    <2>4. Rotation!Add(p, first)
      BY <1>3, <2>3 DEF Rotation!Renews, Rotation!Add
    <2>5. first <= p
      BY <2>1, <2>3 DEF Pairs
    <2> QED BY <1>1, <2>2, <2>3, <2>4, <2>5
  <1>4. ASSUME NEW p \in Pairs, Rotation!IsUsed(p) PROVE LineInv'
    BY <1>4 DEF Rotation!IsUsed, LineInv, Rotation!ValidIsNewest, Rotation!Newest, Rotation!Issued
  <1>5. ASSUME NEW p \in 0..MaxPairs, Rotation!Takes(p) PROVE LineInv'
    BY <1>5 DEF Rotation!Takes, LineInv, Rotation!ValidIsNewest, Rotation!Newest, Rotation!Issued
  <1>6. CASE Rotation!Spoils
    BY <1>6 DEF Rotation!Spoils, LineInv, Rotation!ValidIsNewest
  <1>7. CASE UNCHANGED Rotation!rotationVars
    BY <1>7 DEF Rotation!rotationVars, LineInv, Rotation!ValidIsNewest, Rotation!Newest, Rotation!Issued
  <1> QED BY <1>2, <1>3, <1>4, <1>5, <1>6, <1>7 DEF Rotation!RotationNext, Pairs

\* What TokenRotation promises of the valid pairs holds in WebSession, too.
THEOREM ValidPairsAreNewest == Spec => []Rotation!ValidIsNewest
  <1>1. Rotation!RotationInit => LineInv
    <2> SUFFICES ASSUME Rotation!RotationInit PROVE LineInv
      OBVIOUS
    <2>1. login = [p \in Pairs |-> IF p = 1 THEN 1 ELSE 0] /\ 1 \in Pairs
      BY SessionAssumption DEF Rotation!RotationInit, Pairs
    <2>2. \A p \in Pairs : token[p] = "valid" => p = 1
      BY DEF Rotation!RotationInit
    <2>3. Rotation!ValidIsNewest
      BY <2>1, <2>2 DEF Rotation!ValidIsNewest, Rotation!Newest, Rotation!Issued, Pairs
    <2> QED BY <2>1, <2>3, SessionAssumption DEF LineInv, Pairs
  <1>2. LineInv => Rotation!ValidIsNewest
    BY DEF LineInv
  <1> QED BY <1>1, <1>2, LineInvStep, RotationIsKept, PTL DEF KeepsRotation, Rotation!RotationSpec
=============================================================================
