--------------------------- MODULE SessionProofs ----------------------------
(***************************************************************************)
(* Proofs about Session, for any users, tabs, tokens and requests: Inv is  *)
(* inductive, and with it no answer costs a session that its request did   *)
(* not lack.  One lemma per action, with one step per conjunct of Inv that *)
(* the action can disturb.                                                 *)
(***************************************************************************)
EXTENDS Session, TLAPS

\* The initial states satisfy the invariant.
LEMMA InitInv == Init => Inv
<1> SUFFICES ASSUME Init PROVE Inv
  OBVIOUS
<1> USE DEF Init
<1>1. TypeOK
  BY KnownAssumption DEF TypeOK, Pages
<1>2. TokensIssued /\ AnswersOK /\ PagesOK /\ RedirectsOK
  BY DEF TokensIssued, AnswersOK, PagesOK, RedirectsOK
<1>3. ActsAsShown /\ LoginsBelong
  BY KnownAssumption DEF ActsAsShown, LoginsBelong
<1> QED
  BY <1>1, <1>2, <1>3 DEF Inv

\* A new page of a document keeps the requests, as orphans, and their types.
LEMMA ShowRequests ==
  ASSUME TypeOK, NEW t \in Tabs, NEW p, Show(t, p)
  PROVE  /\ requests' \in [Requests -> Request \cup {None}]
         /\ \A r \in Requests :
               /\ requests'[r] = None <=> requests[r] = None
               /\ requests[r] # None =>
                     /\ requests'[r].tab = requests[r].tab
                     /\ requests'[r].token = requests[r].token
                     /\ requests'[r].answer = requests[r].answer
                     /\ ~requests'[r].orphan =>
                            ~requests[r].orphan /\ requests[r].tab # t
<1>1. ASSUME NEW r \in Requests, requests[r] = None
      PROVE  requests'[r] = None
  BY <1>1 DEF Show
<1>2. ASSUME NEW r \in Requests, requests[r] # None
      PROVE  /\ requests'[r] \in Request
             /\ requests'[r].tab = requests[r].tab
             /\ requests'[r].token = requests[r].token
             /\ requests'[r].answer = requests[r].answer
             /\ ~requests'[r].orphan => ~requests[r].orphan /\ requests[r].tab # t
  <2>1. requests[r] \in Request
    BY <1>2 DEF TypeOK
  <2> QED
    BY <1>2, <2>1 DEF Show, Request
<1>3. None \notin Request
  BY SessionAssumption
<1> QED
  BY <1>1, <1>2, <1>3 DEF Show

\* A new document of a tab has no requests yet, and the others keep theirs.
LEMMA DocumentRequests ==
  ASSUME TypeOK, NEW t \in Tabs, NEW p, NEW T, Document(t, p, T)
  PROVE  /\ requests' \in [Requests -> Request \cup {None}]
         /\ \A r \in Requests : requests'[r] # None =>
               requests'[r] = requests[r] /\ requests[r] # None /\ requests[r].tab # t
BY DEF Document, TypeOK

\* The token of the address becomes that of the store and of localStorage.
LEMMA SignInInv ==
  ASSUME Inv, NEW t \in Tabs, SignIn(t)
  PROVE  Inv'
<1> USE SessionAssumption DEF Inv, SignIn, Navigate, server
<1>1. TypeOK'
  BY DEF TypeOK, Pages, Routes, Steps, Callback, Request, User
<1>2. TokensIssued'
  BY DEF TypeOK, TokensIssued, PagesOK
<1>3. AnswersOK'
  BY DEF TypeOK, AnswersOK, Valid, TokensIssued
<1>4. PagesOK'
  BY DEF TypeOK, PagesOK
<1>5. ActsAsShown'
  BY DEF TypeOK, ActsAsShown, PagesOK, AnswersOK
<1>6. LoginsBelong'
  BY DEF TypeOK, LoginsBelong, PagesOK
<1>7. RedirectsOK'
  BY DEF TypeOK, RedirectsOK
<1> QED
  BY <1>1, <1>2, <1>3, <1>4, <1>5, <1>6, <1>7

\* Only the router is on its way.
LEMMA BackInv ==
  ASSUME Inv, NEW t \in Tabs, Back(t)
  PROVE  Inv'
<1> USE SessionAssumption DEF Inv, Back, Navigate, server
<1>1. TypeOK'
  BY DEF TypeOK, Pages, Routes, Steps, Callback, Request, User
<1>2. TokensIssued'
  BY DEF TypeOK, TokensIssued, PagesOK
<1>3. AnswersOK'
  BY DEF TypeOK, AnswersOK, Valid, TokensIssued
<1>4. PagesOK'
  BY DEF TypeOK, PagesOK
<1>5. ActsAsShown'
  BY DEF TypeOK, ActsAsShown, PagesOK, AnswersOK
<1>6. LoginsBelong'
  BY DEF TypeOK, LoginsBelong, PagesOK
<1>7. RedirectsOK'
  BY DEF TypeOK, RedirectsOK
<1> QED
  BY <1>1, <1>2, <1>3, <1>4, <1>5, <1>6, <1>7

\* Only the router is on its way.
LEMMA FollowInv ==
  ASSUME Inv, NEW t \in Tabs, Follow(t)
  PROVE  Inv'
<1> USE SessionAssumption DEF Inv, Follow, Navigate, server
<1>1. TypeOK'
  BY DEF TypeOK, Pages, Routes, Steps, Callback, Request, User
<1>2. TokensIssued'
  BY DEF TypeOK, TokensIssued, PagesOK
<1>3. AnswersOK'
  BY DEF TypeOK, AnswersOK, Valid, TokensIssued
<1>4. PagesOK'
  BY DEF TypeOK, PagesOK
<1>5. ActsAsShown'
  BY DEF TypeOK, ActsAsShown, PagesOK, AnswersOK
<1>6. LoginsBelong'
  BY DEF TypeOK, LoginsBelong, PagesOK
<1>7. RedirectsOK'
  BY DEF TypeOK, RedirectsOK
<1> QED
  BY <1>1, <1>2, <1>3, <1>4, <1>5, <1>6, <1>7

\* The tab and localStorage lose their token.
LEMMA LogoutInv ==
  ASSUME Inv, NEW t \in Tabs, Logout(t)
  PROVE  Inv'
<1> USE SessionAssumption DEF Inv, Logout, Navigate, server
<1>1. TypeOK'
  BY DEF TypeOK, Pages, Routes, Steps, Callback, Request, User
<1>2. TokensIssued'
  BY DEF TypeOK, TokensIssued, PagesOK
<1>3. AnswersOK'
  BY DEF TypeOK, AnswersOK, Valid, TokensIssued
<1>4. PagesOK'
  BY DEF TypeOK, PagesOK
<1>5. ActsAsShown'
  BY DEF TypeOK, ActsAsShown, PagesOK, AnswersOK
<1>6. LoginsBelong'
  BY DEF TypeOK, LoginsBelong, PagesOK
<1>7. RedirectsOK'
  BY DEF TypeOK, RedirectsOK
<1> QED
  BY <1>1, <1>2, <1>3, <1>4, <1>5, <1>6, <1>7

\* The callback has found the row, or found that there is none.
LEMMA LookupInv ==
  ASSUME Inv, NEW t \in Tabs, Lookup(t)
  PROVE  Inv'
<1> USE SessionAssumption DEF Inv, Lookup, server, router
<1>1. /\ callback[t] \in Callback
      /\ callback[t] # None
  BY DEF TypeOK
<1>2. /\ callback' \in [Tabs -> Callback \cup {None}]
      /\ callback'[t] \in Callback
      /\ \A s \in Tabs : s # t => callback'[s] = callback[s]
      /\ callback'[t].step = "token" =>
             [id |-> callback'[t].id, email |-> callback'[t].email] \in users
  <2>1. CASE \E u \in users :
               /\ u.email = callback[t].email
               /\ callback' = [callback EXCEPT ![t].step = "token", ![t].id = u.id]
    <3>1. PICK u \in users :
             /\ u.email = callback[t].email
             /\ callback' = [callback EXCEPT ![t].step = "token", ![t].id = u.id]
      BY <2>1
    <3>2. u \in User /\ u = [id |-> u.id, email |-> u.email]
      BY DEF TypeOK, User
    <3>3. callback'[t] = [email |-> callback[t].email, step |-> "token", id |-> u.id]
      BY <1>1, <3>1 DEF TypeOK, Callback
    <3> QED
      BY <1>1, <3>1, <3>2, <3>3 DEF TypeOK, Callback, Steps, User
  <2>2. CASE callback' = [callback EXCEPT ![t].step = "create"]
    BY <1>1, <2>2 DEF TypeOK, Callback, Steps
  <2> QED
    BY <2>1, <2>2
<1>3. TypeOK'
  BY <1>2 DEF TypeOK
<1>4. PagesOK'
  BY <1>1, <1>2 DEF TypeOK, PagesOK
<1>5. LoginsBelong'
  BY <1>2 DEF TypeOK, LoginsBelong
<1>6. TokensIssued' /\ AnswersOK' /\ ActsAsShown' /\ RedirectsOK'
  BY DEF TokensIssued, AnswersOK, ActsAsShown, Valid, RedirectsOK
<1> QED
  BY <1>3, <1>4, <1>5, <1>6

\* The row is the first with its email and with its id.
LEMMA CreateInv ==
  ASSUME Inv, NEW t \in Tabs, Create(t)
  PROVE  Inv'
<1> USE SessionAssumption DEF Inv, Create, server, router, Insert
<1> DEFINE id  == CHOOSE id \in NewIds : TRUE
           row == [id |-> id, email |-> callback[t].email]
<1>1. /\ callback[t] \in Callback
      /\ callback[t] # None
  BY DEF TypeOK
<1>2. id \in NewIds
  OBVIOUS
<1>3. row \in User /\ \A u \in users : u.id # row.id /\ u.email # row.email
  BY <1>1, <1>2 DEF NewIds, User, Callback
<1>4. /\ users' = users \cup {row}
      /\ callback' = [callback EXCEPT ![t].step = "token", ![t].id = id]
  OBVIOUS
<1> HIDE DEF id
<1>5. callback'[t] = [email |-> callback[t].email, step |-> "token", id |-> id]
  BY <1>1, <1>4 DEF TypeOK, Callback
<1>6. /\ callback' \in [Tabs -> Callback \cup {None}]
      /\ callback'[t] \in Callback
      /\ \A s \in Tabs : s # t => callback'[s] = callback[s]
  <2>1. callback'[t] \in Callback
    BY <1>1, <1>3, <1>5 DEF Callback, Steps, User
  <2> QED
    BY <1>4, <2>1 DEF TypeOK
<1>7. TypeOK'
  <2>1. users' \in SUBSET User
    BY <1>3, <1>4 DEF TypeOK
  <2> QED
    BY <1>6, <2>1 DEF TypeOK
<1>8. PagesOK'
  <2>1. \A s \in Tabs : callback'[s] # None <=> callback[s] # None
    BY <1>1, <1>6
  <2> QED
    BY <2>1 DEF PagesOK
<1>9. LoginsBelong'
  <2>1. \A u, v \in users' : u.email = v.email \/ u.id = v.id => u = v
    BY <1>3, <1>4 DEF LoginsBelong
  <2>2. \A s \in Tabs : callback'[s] # None /\ callback'[s].step = "token" =>
           [id |-> callback'[s].id, email |-> callback'[s].email] \in users'
    BY <1>4, <1>5, <1>6 DEF LoginsBelong
  <2>3. \A T \in Tokens : owner'[T] # None => \E u \in users' : u.id = owner'[T]
    BY <1>4 DEF LoginsBelong
  <2> QED
    BY <2>1, <2>2, <2>3 DEF LoginsBelong
<1>10. TokensIssued' /\ AnswersOK' /\ ActsAsShown' /\ RedirectsOK'
  BY DEF TokensIssued, AnswersOK, ActsAsShown, Valid, RedirectsOK
<1> QED
  BY <1>7, <1>8, <1>9, <1>10

\* The row of a callback that no tab waits for is the first, too.
LEMMA CreateLateInv ==
  ASSUME Inv, NEW e \in Emails, CreateLate(e)
  PROVE  Inv'
<1> USE SessionAssumption DEF Inv, CreateLate, Insert, router
<1> DEFINE id  == CHOOSE id \in NewIds : TRUE
           row == [id |-> id, email |-> e]
<1>1. id \in NewIds
  OBVIOUS
<1>2. row \in User /\ \A u \in users : u.id # row.id /\ u.email # row.email
  BY <1>1 DEF NewIds, User
<1>3. users' = users \cup {row} /\ left' = left \ {e}
  OBVIOUS
<1> HIDE DEF id
<1>4. TypeOK'
  <2>1. users' \in SUBSET User /\ left' \in SUBSET Emails
    BY <1>2, <1>3 DEF TypeOK
  <2> QED
    BY <2>1 DEF TypeOK
<1>5. LoginsBelong'
  <2>1. \A u, v \in users' : u.email = v.email \/ u.id = v.id => u = v
    BY <1>2, <1>3 DEF LoginsBelong
  <2> QED
    BY <1>3, <2>1 DEF LoginsBelong
<1>6. TokensIssued' /\ AnswersOK' /\ PagesOK' /\ ActsAsShown' /\ RedirectsOK'
  BY DEF TokensIssued, AnswersOK, PagesOK, ActsAsShown, Valid, RedirectsOK
<1> QED
  BY <1>4, <1>5, <1>6

\* The callback is over.
LEMMA CallbackFailsInv ==
  ASSUME Inv, NEW t \in Tabs, CallbackFails(t)
  PROVE  Inv'
<1> USE SessionAssumption DEF Inv, CallbackFails, server, router
<1>1. TypeOK'
  BY DEF TypeOK, Pages, Routes, Steps, Callback, Request, User
<1>2. TokensIssued'
  BY DEF TypeOK, TokensIssued, PagesOK
<1>3. AnswersOK'
  BY DEF TypeOK, AnswersOK, Valid, TokensIssued
<1>4. PagesOK'
  BY DEF TypeOK, PagesOK
<1>5. ActsAsShown'
  BY DEF TypeOK, ActsAsShown, PagesOK, AnswersOK
<1>6. LoginsBelong'
  BY DEF TypeOK, LoginsBelong, PagesOK
<1>7. RedirectsOK'
  BY DEF TypeOK, RedirectsOK
<1> QED
  BY <1>1, <1>2, <1>3, <1>4, <1>5, <1>6, <1>7

\* The request carries the token of the store.
LEMMA SendInv ==
  ASSUME Inv, NEW t \in Tabs, NEW r \in Requests, Send(t, r)
  PROVE  Inv'
<1> USE SessionAssumption DEF Inv, Send, server, router
<1>1. TypeOK'
  BY DEF TypeOK, Pages, Routes, Steps, Callback, Request, User
<1>2. TokensIssued'
  BY DEF TypeOK, TokensIssued, PagesOK
<1>3. AnswersOK'
  BY DEF TypeOK, AnswersOK, Valid, TokensIssued
<1>4. PagesOK'
  BY DEF TypeOK, PagesOK
<1>5. ActsAsShown'
  BY DEF TypeOK, ActsAsShown, PagesOK, AnswersOK
<1>6. LoginsBelong'
  BY DEF TypeOK, LoginsBelong, PagesOK
<1>7. RedirectsOK'
  BY DEF TypeOK, RedirectsOK
<1> QED
  BY <1>1, <1>2, <1>3, <1>4, <1>5, <1>6, <1>7

\* The answer tells what is so of the token.
LEMMA HandleInv ==
  ASSUME Inv, NEW r \in Requests, Handle(r)
  PROVE  Inv'
<1> USE SessionAssumption DEF Inv, Handle, server, router
<1> DEFINE answer == IF Valid(requests[r].token) THEN owner[requests[r].token]
                     ELSE "unauthenticated"
<1>1. requests[r] \in Request /\ requests[r] # None
  BY DEF TypeOK
<1>2. answer \in UserIds \cup {"unauthenticated"}
  BY <1>1 DEF TypeOK, Request, Valid, TokensIssued
<1>3. requests' = [requests EXCEPT ![r].answer = answer]
  OBVIOUS
<1>4. /\ Valid(requests[r].token) => answer = owner[requests[r].token]
      /\ answer \in UserIds => Valid(requests[r].token)
  OBVIOUS
<1> HIDE DEF answer
<1>5. /\ requests'[r] = [requests[r] EXCEPT !.answer = answer]
      /\ requests'[r] \in Request
      /\ requests' \in [Requests -> Request \cup {None}]
      /\ \A s \in Requests : s # r => requests'[s] = requests[s]
  BY <1>1, <1>2, <1>3 DEF TypeOK, Request
<1>6. /\ requests'[r].tab = requests[r].tab
      /\ requests'[r].token = requests[r].token
      /\ requests'[r].orphan = requests[r].orphan
      /\ requests'[r].answer = answer
  BY <1>1, <1>5 DEF Request
<1>7. TypeOK'
  BY <1>5 DEF TypeOK
<1>8. TokensIssued'
  BY <1>1, <1>5, <1>6 DEF TokensIssued
<1>9. AnswersOK'
  <2>1. /\ requests'[r].answer \in UserIds =>
               /\ requests'[r].token # None
               /\ requests'[r].answer = owner[requests'[r].token]
        /\ requests'[r].answer = "unauthenticated" => ~Valid(requests'[r].token)
    BY <1>1, <1>2, <1>4, <1>6 DEF Valid, TokensIssued, TypeOK, Request
  <2>2. ASSUME NEW T PROVE Valid(T)' <=> Valid(T)
    BY DEF Valid
  <2> QED
    BY <1>5, <2>1, <2>2 DEF AnswersOK, Valid
<1>10. PagesOK'
  BY <1>1, <1>5, <1>6 DEF PagesOK
<1>11. ActsAsShown'
  BY <1>1, <1>5, <1>6 DEF ActsAsShown
<1>12. LoginsBelong' /\ RedirectsOK'
  BY DEF LoginsBelong, RedirectsOK
<1> QED
  BY <1>7, <1>8, <1>9, <1>10, <1>11, <1>12

\* The data shown are of the owner of the token the request carried.
LEMMA ReceiveInv ==
  ASSUME Inv, NEW r \in Requests, Receive(r)
  PROVE  Inv'
<1> USE SessionAssumption DEF Inv, Receive, server, router
<1>1. TypeOK'
  BY DEF TypeOK, Pages, Routes, Steps, Callback, Request, User
<1>2. TokensIssued'
  BY DEF TypeOK, TokensIssued, PagesOK
<1>3. AnswersOK'
  BY DEF TypeOK, AnswersOK, Valid, TokensIssued
<1>4. PagesOK'
  BY DEF TypeOK, PagesOK
<1>5. ActsAsShown'
  BY DEF TypeOK, ActsAsShown, PagesOK, AnswersOK
<1>6. LoginsBelong'
  BY DEF TypeOK, LoginsBelong, PagesOK
<1>7. RedirectsOK'
  BY DEF TypeOK, RedirectsOK
<1> QED
  BY <1>1, <1>2, <1>3, <1>4, <1>5, <1>6, <1>7

\* The tab and localStorage lose their token.
LEMMA UnauthenticatedInv ==
  ASSUME Inv, NEW r \in Requests, Unauthenticated(r)
  PROVE  Inv'
<1> USE SessionAssumption DEF Inv, Unauthenticated, server, router
<1>1. TypeOK'
  BY DEF TypeOK, Pages, Routes, Steps, Callback, Request, User
<1>2. TokensIssued'
  BY DEF TypeOK, TokensIssued, PagesOK
<1>3. AnswersOK'
  BY DEF TypeOK, AnswersOK, Valid, TokensIssued
<1>4. PagesOK'
  BY DEF TypeOK, PagesOK
<1>5. ActsAsShown'
  BY DEF TypeOK, ActsAsShown, PagesOK, AnswersOK
<1>6. LoginsBelong'
  BY DEF TypeOK, LoginsBelong, PagesOK
<1>7. RedirectsOK'
  BY DEF TypeOK, RedirectsOK
<1> QED
  BY <1>1, <1>2, <1>3, <1>4, <1>5, <1>6, <1>7

\* Only the request is gone.
LEMMA FailsInv ==
  ASSUME Inv, NEW r \in Requests, Fails(r)
  PROVE  Inv'
<1> USE SessionAssumption DEF Inv, Fails, server, router
<1>1. TypeOK'
  BY DEF TypeOK, Pages, Routes, Steps, Callback, Request, User
<1>2. TokensIssued'
  BY DEF TypeOK, TokensIssued, PagesOK
<1>3. AnswersOK'
  BY DEF TypeOK, AnswersOK, Valid, TokensIssued
<1>4. PagesOK'
  BY DEF TypeOK, PagesOK
<1>5. ActsAsShown'
  BY DEF TypeOK, ActsAsShown, PagesOK, AnswersOK
<1>6. LoginsBelong'
  BY DEF TypeOK, LoginsBelong, PagesOK
<1>7. RedirectsOK'
  BY DEF TypeOK, RedirectsOK
<1> QED
  BY <1>1, <1>2, <1>3, <1>4, <1>5, <1>6, <1>7

\* A token that was refused is still refused.
LEMMA ExpireInv ==
  ASSUME Inv, NEW T \in Tokens, Expire(T)
  PROVE  Inv'
<1> USE SessionAssumption DEF Inv, Expire, server, router
<1>1. TypeOK'
  BY DEF TypeOK, Pages, Routes, Steps, Callback, Request, User
<1>2. TokensIssued'
  BY DEF TypeOK, TokensIssued, PagesOK
<1>3. AnswersOK'
  BY DEF TypeOK, AnswersOK, Valid, TokensIssued
<1>4. PagesOK'
  BY DEF TypeOK, PagesOK
<1>5. ActsAsShown'
  BY DEF TypeOK, ActsAsShown, PagesOK, AnswersOK
<1>6. LoginsBelong'
  BY DEF TypeOK, LoginsBelong, PagesOK
<1>7. RedirectsOK'
  BY DEF TypeOK, RedirectsOK
<1> QED
  BY <1>1, <1>2, <1>3, <1>4, <1>5, <1>6, <1>7

\* Another page of the document: what its requests were they are, and none is of
\* the new page.
LEMMA ShowInv ==
  ASSUME Inv, NEW t \in Tabs, NEW p \in {"away", "auth", "landing", "dash"}, Show(t, p),
         going' \in [Tabs -> Routes \cup {"stay"}], redirects' \in [Tabs -> Nat],
         redirects'[t] = 0,
         \A s \in Tabs : s # t => going'[s] = going[s] /\ redirects'[s] = redirects[s],
         page[t] # "login",
         p = "landing" \/ going'[t] = "landing" => address[t] # None,
         UNCHANGED <<server, stored, memory, address, callback>>
  PROVE  Inv'
<1> USE SessionAssumption DEF Inv, server
<1>1. requests' \in [Requests -> Request \cup {None}]
  BY ShowRequests
<1>2. ASSUME NEW r \in Requests, requests'[r] # None
      PROVE  /\ requests[r] # None
             /\ requests'[r].tab = requests[r].tab
             /\ requests'[r].token = requests[r].token
             /\ requests'[r].answer = requests[r].answer
             /\ ~requests'[r].orphan => ~requests[r].orphan /\ requests[r].tab # t
  BY <1>2, ShowRequests
<1>3. /\ page' = [page EXCEPT ![t] = p]
      /\ shown' = [shown EXCEPT ![t] = None]
  BY DEF Show
<1>4. TypeOK'
  BY <1>1, <1>3 DEF TypeOK, Pages, Routes
<1>5. TokensIssued'
  BY <1>2 DEF TokensIssued
<1>6. AnswersOK'
  BY <1>2 DEF AnswersOK, Valid
<1>7. PagesOK'
  <2>1. ASSUME NEW s \in Tabs
        PROVE  /\ page'[s] = "landing" \/ going'[s] = "landing" => address'[s] # None
               /\ shown'[s] # None => page'[s] = "dash"
               /\ page'[s] = "login" => going'[s] = "stay"
               /\ page'[s] = "login" <=> callback'[s] # None
    BY <1>3 DEF PagesOK, TypeOK
  <2>2. ASSUME NEW r \in Requests, requests'[r] # None, ~requests'[r].orphan
        PROVE  page'[requests'[r].tab] = "dash"
    BY <1>2, <1>3, <2>2 DEF PagesOK, TypeOK
  <2> QED
    BY <2>1, <2>2 DEF PagesOK
<1>8. ActsAsShown'
  BY <1>2, <1>3 DEF ActsAsShown, TypeOK
<1>9. LoginsBelong'
  BY DEF LoginsBelong
<1>10. RedirectsOK'
  BY DEF RedirectsOK
<1> QED
  BY <1>4, <1>5, <1>6, <1>7, <1>8, <1>9, <1>10

\* A new document has no requests and shows nothing yet.
LEMMA DocumentInv ==
  ASSUME Inv, NEW t \in Tabs, NEW p \in Pages, NEW T \in {stored, None}, Document(t, p, T),
         going' \in [Tabs -> Routes \cup {"stay"}], redirects' \in [Tabs -> Nat],
         redirects'[t] = 0,
         callback' \in [Tabs -> Callback \cup {None}],
         \A s \in Tabs : s # t => /\ going'[s] = going[s]
                                  /\ redirects'[s] = redirects[s]
                                  /\ callback'[s] = callback[s],
         p = "landing" \/ going'[t] = "landing" => address'[t] # None,
         p = "login" => going'[t] = "stay",
         p = "login" <=> callback'[t] # None,
         callback'[t] # None => callback'[t].step = "lookup",
         address' \in [Tabs -> Tokens \cup {None}],
         owner' \in [Tokens -> UserIds \cup {None}],
         \A S \in Tokens : owner[S] # None => owner'[S] = owner[S],
         \A s \in Tabs : s # t => address'[s] = address[s],
         address'[t] # None => owner'[address'[t]] # None,
         \A S \in Tokens : owner'[S] # None => \E u \in users : u.id = owner'[S],
         left' \in SUBSET Emails,
         UNCHANGED <<users, expired, stored>>
  PROVE  Inv'
<1> USE SessionAssumption DEF Inv
<1>1. requests' \in [Requests -> Request \cup {None}]
  BY DocumentRequests
<1>2. ASSUME NEW r \in Requests, requests'[r] # None
      PROVE  requests'[r] = requests[r] /\ requests[r] # None /\ requests[r].tab # t
  BY <1>2, DocumentRequests
<1>3. /\ page' = [page EXCEPT ![t] = p]
      /\ memory' = [memory EXCEPT ![t] = T]
      /\ shown' = [shown EXCEPT ![t] = None]
  BY DEF Document
<1>4. TypeOK'
  BY <1>1, <1>3 DEF TypeOK
<1>5. TokensIssued'
  <2>1. stored' # None => owner'[stored'] # None
    BY DEF TokensIssued, TypeOK
  <2>2. ASSUME NEW s \in Tabs, memory'[s] # None PROVE owner'[memory'[s]] # None
    BY <1>3, <2>1, <2>2 DEF TokensIssued, TypeOK
  <2>3. ASSUME NEW s \in Tabs, address'[s] # None PROVE owner'[address'[s]] # None
    BY <2>3 DEF TokensIssued, TypeOK
  <2>4. ASSUME NEW r \in Requests, requests'[r] # None, requests'[r].token # None
        PROVE  owner'[requests'[r].token] # None
    <3>1. requests[r] \in Request
      BY <1>2, <2>4 DEF TypeOK
    <3> QED
      BY <1>2, <2>4, <3>1 DEF TokensIssued, Request
  <2> QED
    BY <2>1, <2>2, <2>3, <2>4 DEF TokensIssued
<1>6. AnswersOK'
  <2>1. ASSUME NEW r \in Requests, requests'[r] # None
        PROVE  /\ requests'[r].answer \in UserIds =>
                      /\ requests'[r].token # None
                      /\ requests'[r].answer = owner'[requests'[r].token]
               /\ requests'[r].answer = "unauthenticated" =>
                      requests'[r].token = None \/ requests'[r].token \in expired'
    <3>1. requests[r] \in Request
      BY <1>2, <2>1 DEF TypeOK
    <3>2. /\ requests[r].answer \in UserIds =>
                 /\ requests[r].token \in Tokens
                 /\ requests[r].answer = owner[requests[r].token]
                 /\ owner[requests[r].token] # None
          /\ requests[r].answer = "unauthenticated" => ~Valid(requests[r].token)
      BY <1>2, <2>1, <3>1 DEF AnswersOK, Request, TokensIssued
    <3> QED
      BY <1>2, <2>1, <3>2 DEF Valid
  <2> QED
    BY <2>1 DEF AnswersOK, Valid
<1>7. PagesOK'
  <2>1. ASSUME NEW s \in Tabs
        PROVE  /\ page'[s] = "landing" \/ going'[s] = "landing" => address'[s] # None
               /\ shown'[s] # None => page'[s] = "dash"
               /\ page'[s] = "login" => going'[s] = "stay"
               /\ page'[s] = "login" <=> callback'[s] # None
    BY <1>3 DEF PagesOK, TypeOK
  <2>2. ASSUME NEW r \in Requests, requests'[r] # None, ~requests'[r].orphan
        PROVE  page'[requests'[r].tab] = "dash"
    <3>1. requests[r].tab \in Tabs
      BY <1>2, <2>2 DEF TypeOK, Request
    <3> QED
      BY <1>2, <1>3, <2>2, <3>1 DEF PagesOK, TypeOK
  <2> QED
    BY <2>1, <2>2 DEF PagesOK
<1>8. ActsAsShown'
  <2>1. \A S \in Tokens : owner[S] # None => owner'[S] = owner[S]
    OBVIOUS
  <2>2. ASSUME NEW s \in Tabs, memory'[s] # None, s # t
        PROVE  /\ memory'[s] = memory[s] /\ shown'[s] = shown[s]
               /\ owner'[memory'[s]] = owner[memory[s]]
    BY <1>3, <2>1, <2>2 DEF TypeOK, TokensIssued
  <2>3. ASSUME NEW r \in Requests, requests'[r] # None, requests'[r].token # None
        PROVE  owner'[requests'[r].token] = owner[requests[r].token]
    <3>1. requests[r] \in Request
      BY <1>2, <2>3 DEF TypeOK
    <3> QED
      BY <1>2, <2>1, <2>3, <3>1 DEF TokensIssued, Request
  <2>4. ASSUME NEW s \in Tabs, memory'[s] # None, shown'[s] # None
        PROVE  shown'[s] = owner'[memory'[s]]
    BY <1>3, <2>2, <2>4 DEF ActsAsShown, TypeOK
  <2>5. ASSUME NEW s \in Tabs, memory'[s] # None, NEW r \in Requests, requests'[r] # None,
               requests'[r].tab = s, ~requests'[r].orphan, requests'[r].token # None
        PROVE  owner'[requests'[r].token] = owner'[memory'[s]]
    BY <1>2, <2>2, <2>3, <2>5 DEF ActsAsShown
  <2> QED
    BY <2>4, <2>5 DEF ActsAsShown
<1>9. LoginsBelong'
  BY DEF LoginsBelong, TypeOK
<1>10. RedirectsOK'
  BY <1>3 DEF RedirectsOK, TypeOK
<1> QED
  BY <1>4, <1>5, <1>6, <1>7, <1>8, <1>9, <1>10

\* A document that is loaded by the user.
LEMMA LoadInv ==
  ASSUME Inv, NEW t \in Tabs, NEW p \in {"away", "auth", "dash", "landing"}, Load(t, p),
         p = "landing" => address[t] # None
  PROVE  Inv'
<1> USE SessionAssumption DEF Inv, server
<1> DEFINE bare == p = "dash" /\ stored = None
           q == IF bare THEN "away" ELSE p
           T == IF bare THEN None ELSE stored
<1>1. q \in Pages /\ T \in {stored, None} /\ Document(t, q, T)
  BY DEF Load, Pages, Routes
<1>2. /\ q # "login"
      /\ q = "landing" => p = "landing"
  OBVIOUS
<1>3. /\ going' \in [Tabs -> Routes \cup {"stay"}] /\ redirects' \in [Tabs -> Nat]
      /\ redirects'[t] = 0
      /\ callback' \in [Tabs -> Callback \cup {None}]
      /\ callback'[t] = None
      /\ going'[t] # "landing"
      /\ \A s \in Tabs : s # t => /\ going'[s] = going[s]
                                  /\ redirects'[s] = redirects[s]
                                  /\ callback'[s] = callback[s]
  BY DEF Load, Navigate, TypeOK, Routes
<1>6. left' \in SUBSET Emails
  <2>1. page[t] = "login" => callback[t].email \in Emails
    BY DEF PagesOK, TypeOK, Callback
  <2> QED
    BY <2>1 DEF Load, WithoutRow, TypeOK
<1>4. UNCHANGED <<users, owner, expired, stored, address>>
  BY DEF Load
<1>5. /\ address[t] # None => owner[address[t]] # None
      /\ \A S \in Tokens : owner[S] # None => \E u \in users : u.id = owner[S]
      /\ owner \in [Tokens -> UserIds \cup {None}]
      /\ address \in [Tabs -> Tokens \cup {None}]
  BY DEF TokensIssued, LoginsBelong, TypeOK
<1> HIDE DEF q, T, bare, Inv
<1> QED
  BY <1>1, <1>2, <1>3, <1>4, <1>5, <1>6, DocumentInv

\* Google's page.
LEMMA LoginInv ==
  ASSUME Inv, NEW t \in Tabs, Login(t)
  PROVE  Inv'
<1>1. PICK e \in Emails :
         callback' = [callback EXCEPT ![t] = [email |-> e, step |-> "lookup", id |-> None]]
  BY DEF Login
<1>2. /\ callback' \in [Tabs -> Callback \cup {None}]
      /\ callback'[t] # None /\ callback'[t].step = "lookup"
      /\ \A s \in Tabs : s # t => callback'[s] = callback[s]
  BY <1>1, SessionAssumption DEF Inv, TypeOK, Callback, Steps
<1>3. /\ going' \in [Tabs -> Routes \cup {"stay"}] /\ redirects' \in [Tabs -> Nat]
      /\ going'[t] = "stay" /\ redirects'[t] = 0
      /\ \A s \in Tabs : s # t => going'[s] = going[s] /\ redirects'[s] = redirects[s]
  BY DEF Login, Navigate, Inv, TypeOK
<1>4. "login" \in Pages /\ Document(t, "login", None)
  BY DEF Login, Pages
<1>5. UNCHANGED <<users, owner, expired, left, stored, address>> /\ left \in SUBSET Emails
  BY DEF Login, server, Inv, TypeOK
<1>6. /\ address[t] # None => owner[address[t]] # None
      /\ \A S \in Tokens : owner[S] # None => \E u \in users : u.id = owner[S]
      /\ owner \in [Tokens -> UserIds \cup {None}]
      /\ address \in [Tabs -> Tokens \cup {None}]
  BY DEF Inv, TokensIssued, LoginsBelong, TypeOK
<1> QED
  BY <1>2, <1>3, <1>4, <1>5, <1>6, DocumentInv

\* A token that was not issued before belongs to the row the callback found.
LEMMA IssueInv ==
  ASSUME Inv, NEW t \in Tabs, Issue(t)
  PROVE  Inv'
<1> DEFINE T == CHOOSE T \in Tokens : owner[T] = None
<1>1. T \in Tokens /\ owner[T] = None
  BY DEF Issue
<1>2. owner' = [owner EXCEPT ![T] = callback[t].id] /\ address' = [address EXCEPT ![t] = T]
  BY DEF Issue
<1> HIDE DEF T
<1>3. /\ callback[t].id \in UserIds /\ callback[t].id # None
      /\ \E u \in users : u.id = callback[t].id
  <2>1. [id |-> callback[t].id, email |-> callback[t].email] \in users
    BY DEF Issue, Inv, LoginsBelong
  <2>2. [id |-> callback[t].id, email |-> callback[t].email] \in User
    BY <2>1 DEF Inv, TypeOK
  <2> QED
    BY <2>1, <2>2, SessionAssumption DEF User
<1>4. /\ owner' \in [Tokens -> UserIds \cup {None}]
      /\ address' \in [Tabs -> Tokens \cup {None}]
      /\ \A S \in Tokens : owner[S] # None => owner'[S] = owner[S]
      /\ \A S \in Tokens : owner'[S] # None => \E u \in users : u.id = owner'[S]
      /\ \A s \in Tabs : s # t => address'[s] = address[s]
      /\ address'[t] # None /\ owner'[address'[t]] # None
  BY <1>1, <1>2, <1>3, SessionAssumption DEF Inv, TypeOK, LoginsBelong
<1>5. /\ callback' \in [Tabs -> Callback \cup {None}] /\ callback'[t] = None
      /\ \A s \in Tabs : s # t => callback'[s] = callback[s]
      /\ UNCHANGED <<going, redirects>>
      /\ going \in [Tabs -> Routes \cup {"stay"}] /\ redirects \in [Tabs -> Nat]
  BY DEF Issue, router, Inv, TypeOK
<1>8. redirects[t] = 0
  BY DEF Issue, Inv, PagesOK, RedirectsOK
<1>6. "landing" \in Pages /\ stored \in {stored, None} /\ Document(t, "landing", stored)
  BY DEF Issue, Pages, Routes
<1>7. UNCHANGED <<users, expired, left, stored>> /\ left \in SUBSET Emails
  BY DEF Issue, Inv, TypeOK
<1> QED
  BY <1>4, <1>5, <1>6, <1>7, <1>8, DocumentInv

\* A loader leads to the page or to a redirect.
LEMMA ArriveInv ==
  ASSUME Inv, NEW t \in Tabs, Arrive(t)
  PROVE  Inv'
<1> DEFINE p == Redirect(t, going[t])
<1>1. /\ going[t] \in Routes /\ p \in Routes /\ page[t] # "login"
      /\ p = "landing" => address[t] # None
  BY DEF Arrive, Redirect, Routes, Inv, TypeOK, PagesOK
<1>2. UNCHANGED <<server, stored, memory, address, callback>>
  BY DEF Arrive
<1>3. CASE Show(t, p) /\ p = going[t] /\ Navigate(t, "stay")
  <2>1. /\ going' \in [Tabs -> Routes \cup {"stay"}] /\ redirects' \in [Tabs -> Nat]
        /\ going'[t] = "stay" /\ redirects'[t] = 0
        /\ \A s \in Tabs : s # t => going'[s] = going[s] /\ redirects'[s] = redirects[s]
    BY <1>3 DEF Navigate, Inv, TypeOK
  <2>2. p = "landing" \/ going'[t] = "landing" => address[t] # None
    BY <1>1, <2>1
  <2>3. p \in {"away", "auth", "landing", "dash"}
    BY <1>1 DEF Routes
  <2> HIDE DEF p
  <2> QED
    BY <1>1, <1>2, <1>3, <2>1, <2>2, <2>3, ShowInv
<1>4. ASSUME UNCHANGED <<page, shown, requests>>,
             going' \in [Tabs -> Routes \cup {"stay"}], redirects' \in [Tabs -> Nat],
             \A s \in Tabs : s # t => going'[s] = going[s] /\ redirects'[s] = redirects[s],
             going'[t] \in {"stay", p},
             \/ redirects'[t] = 0
             \/ redirects'[t] = 1 /\ going'[t] = "dash"
             \/ redirects'[t] \in 1..2 /\ going'[t] = "auth" /\ memory[t] = None
      PROVE  Inv'
  <2>1. TypeOK'
    BY <1>2, <1>4 DEF Inv, TypeOK, server
  <2>2. PagesOK'
    BY <1>1, <1>2, <1>4 DEF Inv, PagesOK, Routes
  <2>3. TokensIssued' /\ AnswersOK' /\ ActsAsShown' /\ LoginsBelong'
    BY <1>2, <1>4 DEF Inv, TokensIssued, AnswersOK, ActsAsShown, LoginsBelong, Valid, server
  <2>4. RedirectsOK'
    BY <1>2, <1>4 DEF Inv, RedirectsOK
  <2> QED
    BY <2>1, <2>2, <2>3, <2>4 DEF Inv
<1>5. CASE StayMounted(t) /\ Navigate(t, "stay")
  BY <1>4, <1>5 DEF StayMounted, Navigate, Inv, TypeOK
<1>6. CASE p # going[t] /\ SendOn(t, p) /\ UNCHANGED <<page, shown, requests>>
  <2>1. \/ redirects[t] = 0 /\ p = "dash"
        \/ redirects[t] \in 0..1 /\ p = "auth" /\ memory[t] = None
    BY <1>1, <1>6 DEF Redirect, Inv, RedirectsOK, Routes
  <2>2. /\ going' = [going EXCEPT ![t] = p]
        /\ redirects' = [redirects EXCEPT ![t] = redirects[t] + 1]
    BY <1>6 DEF SendOn
  <2>3. redirects \in [Tabs -> Nat] /\ going \in [Tabs -> Routes \cup {"stay"}]
    BY DEF Inv, TypeOK
  <2> HIDE DEF p
  <2> QED
    BY <1>1, <1>4, <1>6, <2>1, <2>2, <2>3
<1> QED
  BY <1>3, <1>5, <1>6 DEF Arrive

\* A loader that fails leaves an error page.
LEMMA LoaderFailsInv ==
  ASSUME Inv, NEW t \in Tabs, LoaderFails(t)
  PROVE  Inv'
<1>1. Show(t, "away") /\ Navigate(t, "stay") /\ page[t] # "login"
  BY DEF LoaderFails, Inv, PagesOK
<1>2. /\ going' \in [Tabs -> Routes \cup {"stay"}] /\ redirects' \in [Tabs -> Nat]
      /\ redirects'[t] = 0
      /\ \A s \in Tabs : s # t => going'[s] = going[s] /\ redirects'[s] = redirects[s]
      /\ "away" = "landing" \/ going'[t] = "landing" => address[t] # None
  BY <1>1 DEF Navigate, Inv, TypeOK
<1>3. UNCHANGED <<server, stored, memory, address, callback>>
  BY DEF LoaderFails
<1> QED
  BY <1>1, <1>2, <1>3, ShowInv

\* A link to a page without a loader to run.
LEMMA SwitchInv ==
  ASSUME Inv, NEW t \in Tabs, Switch(t)
  PROVE  Inv'
<1>1. PICK p \in {"away", "dash"} : Show(t, p)
  BY DEF Switch
<1>2. page[t] # "login" /\ Navigate(t, "stay")
  BY DEF Switch
<1>3. /\ going' \in [Tabs -> Routes \cup {"stay"}] /\ redirects' \in [Tabs -> Nat]
      /\ redirects'[t] = 0
      /\ \A s \in Tabs : s # t => going'[s] = going[s] /\ redirects'[s] = redirects[s]
      /\ p = "landing" \/ going'[t] = "landing" => address[t] # None
  BY <1>2 DEF Navigate, Inv, TypeOK
<1>4. UNCHANGED <<server, stored, memory, address, callback>>
  BY DEF Switch
<1> QED
  BY <1>1, <1>2, <1>3, <1>4, ShowInv

\* Whatever the user does with a tab.
LEMMA SteerInv ==
  ASSUME Inv, NEW t \in Tabs, Steer(t)
  PROVE  Inv'
<1>1. CASE \E p \in {"away", "auth", "dash"} : Load(t, p)
  BY <1>1, LoadInv
<1>2. CASE BackToDocument(t)
  BY <1>2, LoadInv DEF BackToDocument
<1>3. CASE Follow(t) \/ Switch(t) \/ Back(t) \/ Logout(t) \/ Login(t)
  BY <1>3, FollowInv, SwitchInv, BackInv, LogoutInv, LoginInv
<1> QED
  BY <1>1, <1>2, <1>3 DEF Steer

\* Every step keeps the invariant.
LEMMA NextInv == Inv /\ [Next]_vars => Inv'
<1> SUFFICES ASSUME Inv, [Next]_vars PROVE Inv'
  OBVIOUS
<1>1. ASSUME NEW t \in Tabs, Steer(t) \/ Routing(t) \/ CallbackStep(t) PROVE Inv'
  <2>1. CASE Steer(t)
    BY <2>1, SteerInv
  <2>2. CASE Routing(t)
    BY <2>2, SignInInv, ArriveInv, LoaderFailsInv DEF Routing
  <2>3. CASE CallbackStep(t)
    BY <2>3, LookupInv, CreateInv, IssueInv, CallbackFailsInv DEF CallbackStep
  <2> QED
    BY <1>1, <2>1, <2>2, <2>3
<1>2. ASSUME NEW t \in Tabs, NEW r \in Requests, Send(t, r) PROVE Inv'
  BY <1>2, SendInv
<1>3. ASSUME NEW r \in Requests, Handle(r) \/ Answer(r) PROVE Inv'
  BY <1>3, HandleInv, ReceiveInv, UnauthenticatedInv, FailsInv DEF Answer
<1>4. ASSUME NEW T \in Tokens, Expire(T) PROVE Inv'
  BY <1>4, ExpireInv
<1>5. ASSUME NEW e \in Emails, CreateLate(e) PROVE Inv'
  BY <1>5, CreateLateInv
<1>6. CASE UNCHANGED vars
  BY <1>6 DEF vars, server, router, Inv, TypeOK, TokensIssued, AnswersOK, PagesOK,
              RedirectsOK, ActsAsShown, LoginsBelong, Valid
<1> QED
  BY <1>1, <1>2, <1>3, <1>4, <1>5, <1>6 DEF Next

\* The invariant holds, for any users, tabs, tokens and requests.
THEOREM InvHolds == Spec => []Inv
<1> QED
  BY InitInv, NextInv, PTL DEF Spec

\* Every variable keeps its type.
THEOREM TypesHold == Spec => []TypeOK
<1>1. Inv => TypeOK
  BY DEF Inv
<1> QED
  BY <1>1, InvHolds, PTL

\* No tab ever acts for another user than the one it shows.
THEOREM ActsAsShownHolds == Spec => []ActsAsShown
<1>1. Inv => ActsAsShown
  BY DEF Inv
<1> QED
  BY <1>1, InvHolds, PTL

\* An email has one row and a token belongs to a row, however callbacks race.
THEOREM LoginsBelongHolds == Spec => []LoginsBelong
<1>1. Inv => LoginsBelong
  BY DEF Inv
<1> QED
  BY <1>1, InvHolds, PTL

\* A navigation is redirected twice at most, whatever is refused and whoever signs
\* in or out elsewhere before it ends.
THEOREM RedirectsEndHolds == Spec => []RedirectsEnd
<1>1. Inv => RedirectsEnd
  BY DEF Inv, RedirectsOK, RedirectsEnd
<1> QED
  BY <1>1, InvHolds, PTL

\* What a step of the user does to the stores: the tab's own changes, and
\* localStorage with a logout only.
LEMMA SteerStores ==
  ASSUME TypeOK, NEW t \in Tabs, Steer(t)
  PROVE  /\ \A s \in Tabs : s # t => memory'[s] = memory[s]
         /\ stored' = stored \/ Logout(t)
<1>1. ASSUME NEW p, Load(t, p)
      PROVE  (\A s \in Tabs : s # t => memory'[s] = memory[s]) /\ stored' = stored
  BY <1>1 DEF Load, Document, TypeOK
<1>2. CASE Login(t)
  BY <1>2 DEF Login, Document, TypeOK
<1>3. CASE Logout(t)
  BY <1>3 DEF Logout, TypeOK
<1>4. CASE Follow(t) \/ Switch(t) \/ Back(t)
  BY <1>4 DEF Follow, Switch, Back
<1> QED
  BY <1>1, <1>2, <1>3, <1>4 DEF Steer, BackToDocument

\* A valid token is lost only through the user, a document that loads, or the
\* answer to a request that carried none.
THEOREM ValidTokensSurviveHolds == Spec => ValidTokensSurvive
<1> DEFINE MemorySurvives(t) ==
             \/ Valid(memory[t]) => memory'[t] = memory[t]
             \/ Steer(t) \/ SignIn(t) \/ Issue(t)
             \/ \E r \in Requests : ToldInvalid(r) /\ requests[r].tab = t
           StoredSurvives ==
             \/ Valid(stored) => stored' = stored
             \/ \E t \in Tabs : Logout(t) \/ SignIn(t)
             \/ \E r \in Requests : ToldInvalid(r)
           Survive == (\A t \in Tabs : MemorySurvives(t)) /\ StoredSurvives
<1>1. ASSUME Inv, Next PROVE Survive
  <2>1. ASSUME NEW t \in Tabs, Steer(t) PROVE Survive
    BY <1>1, <2>1, SteerStores DEF Inv
  <2>2. ASSUME NEW t \in Tabs, SignIn(t) PROVE Survive
    <3>1. \A s \in Tabs : s # t => memory'[s] = memory[s]
      BY <1>1, <2>2 DEF SignIn, Inv, TypeOK
    <3> QED
      BY <2>2, <3>1
  <2>3. ASSUME NEW t \in Tabs, Issue(t) PROVE Survive
    <3>1. /\ \A s \in Tabs : s # t => memory'[s] = memory[s]
          /\ stored' = stored
      BY <1>1, <2>3 DEF Issue, Document, Inv, TypeOK
    <3> QED
      BY <2>3, <3>1
  <2>4. ASSUME NEW r \in Requests, Unauthenticated(r) PROVE Survive
    <3>1. ToldInvalid(r)
      BY <1>1, <2>4 DEF Unauthenticated, ToldInvalid, Inv, AnswersOK, TypeOK
    <3>2. \A t \in Tabs : t # requests[r].tab => memory'[t] = memory[t]
      BY <1>1, <2>4 DEF Unauthenticated, Inv, TypeOK
    <3> QED
      BY <3>1, <3>2
  <2>5. ASSUME memory' = memory, stored' = stored PROVE Survive
    BY <2>5
  <2>6. ASSUME NEW t \in Tabs, Arrive(t) \/ LoaderFails(t) \/ Lookup(t) \/ Create(t)
                                 \/ CallbackFails(t)
        PROVE  memory' = memory /\ stored' = stored
    BY <2>6 DEF Arrive, LoaderFails, Lookup, Create, CallbackFails
  <2>7. ASSUME NEW r \in Requests,
               (\E t \in Tabs : Send(t, r)) \/ Handle(r) \/ Receive(r) \/ Fails(r)
        PROVE  memory' = memory /\ stored' = stored
    BY <2>7 DEF Send, Handle, Receive, Fails
  <2>8. ASSUME (\E T \in Tokens : Expire(T)) \/ (\E e \in Emails : CreateLate(e))
        PROVE  memory' = memory /\ stored' = stored
    BY <2>8 DEF Expire, CreateLate
  <2> HIDE DEF Survive
  <2> QED
    BY <1>1, <2>1, <2>2, <2>3, <2>4, <2>5, <2>6, <2>7, <2>8
       DEF Next, Routing, CallbackStep, Answer
<1>2. Inv /\ [Next]_vars => [Survive]_vars
  BY <1>1
<1> QED
  BY <1>2, InvHolds, PTL DEF Spec, ValidTokensSurvive
=============================================================================
