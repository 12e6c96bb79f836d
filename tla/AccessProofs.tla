---------------------------- MODULE AccessProofs ----------------------------
(***************************************************************************)
(* Proofs about signing in and staying so.  Refresh rotation is proved     *)
(* here; the other components of the composition are instances of          *)
(* PeopleProofs, whose theorems are carried over to the composition.       *)
(***************************************************************************)
EXTENDS MCAccess, FiniteSetTheorems, TLAPS

-----------------------------------------------------------------------------
(* The inductive invariant. *)

\* As many credentials were issued as there are sessions and rotations, so the
\* number of the next one is new.
Rotated == {r \in Requests : req[r].outcome = "rotated"}
Counted ==
    /\ IsFiniteSet(issued)
    /\ Cardinality(issued) = Cardinality(Sessions) + Cardinality(Rotated)

\* Validators are numbered in order of issue and never given out twice; a
\* credential with a selector is of a session with one.
IssuedOK ==
    /\ \A c \in issued : c.validator \in 1 .. Cardinality(issued)
    /\ \A c \in issued : c.selected => session[c.session].selector
    /\ \A c, d \in issued : c.validator = d.validator => c = d

\* The current validator of a session was issued for it.
CurrentOK ==
    \A s \in Sessions : \E c \in issued : c.session = s /\ c.validator = session[s].validator

\* The ledger holds validators that were issued, never a current one, and the
\* parent of every credential that replaced another.
LedgerOK ==
    /\ \A v \in Validators, s \in Sessions :
          <<v, s>> \in ledger => \E c \in issued : c.session = s /\ c.validator = v
    /\ \A s, t \in Sessions : <<session[s].validator, t>> \notin ledger
    /\ \A c \in issued : c.parent # Unknown => <<c.parent, c.session>> \in ledger

\* What each stage of a request knows of the credential it presents.
Active == {"rotate", "observe", "again", "logout"}
RequestOK(q) ==
    /\ q.pc # "done" => q.outcome = "none"
    /\ q.pc \in Active =>
          /\ q.session \in Sessions /\ q.cred \in Credential /\ q.cred.session = q.session
          /\ q.cred \in issued \/ q.cred.validator = Unknown
          /\ q.op = IF q.pc = "logout" THEN "logout" ELSE "refresh"
    /\ q.pc = "done" => q.cred \in Credential
    /\ q.op = "logout" /\ q.pc = "done" /\ q.cred.selected => ~Live(q.cred.session)
RequestsOK == \A r \in Requests : RequestOK(req[r])

RotationInv ==
    TypeOK /\ Counted /\ IssuedOK /\ CurrentOK /\ LedgerOK /\ FamilyIsLinear /\ RequestsOK

-----------------------------------------------------------------------------
(* Lemmas. *)

\* The number of the next credential is one a validator can have.
LEMMA RoomForNext ==
    ASSUME TypeOK, Counted, NEW r \in Requests, req[r].outcome # "rotated"
    PROVE  /\ Cardinality(issued) \in Nat /\ NextValidator \in Validators
           /\ IsFiniteSet(Rotated) /\ r \notin Rotated
<1>1. Rotated \in SUBSET (Requests \ {r}) /\ r \notin Rotated
  BY DEF Rotated
<1>2. /\ IsFiniteSet(Requests \ {r})
      /\ Cardinality(Requests \ {r}) = Cardinality(Requests) - 1
      /\ Cardinality(Requests) \in Nat /\ Cardinality(Sessions) \in Nat
  BY RotationAssumption, FS_RemoveElement, FS_CardinalityType
<1>3. /\ IsFiniteSet(Rotated) /\ Cardinality(Rotated) =< Cardinality(Requests \ {r})
      /\ Cardinality(Rotated) \in Nat
  BY <1>1, <1>2, FS_Subset, FS_CardinalityType
<1> QED BY <1>1, <1>2, <1>3 DEF Counted, NextValidator, Validators

\* No session comes back to life, no credential is taken back.
Kept ==
    /\ issued \subseteq issued'
    /\ \A s \in Sessions : ~Live(s) => ~Live(s)'

\* What a request knows outlasts a step of another one.
LEMMA RequestKept ==
    ASSUME Kept, NEW q, RequestOK(q)
    PROVE  RequestOK(q)'
<1>1. q.pc = "done" => (q.cred.session \in Sessions)
  BY DEF RequestOK, Credential
<1>2. q.op = "logout" /\ q.pc = "done" /\ q.cred.selected => ~Live(q.cred.session)'
  BY <1>1 DEF RequestOK, Kept
<1>3. q.cred \in issued => q.cred \in issued'
  BY DEF Kept
<1> QED BY <1>2, <1>3 DEF RequestOK

\* One request goes on, the others stay as they are.
LEMMA OneRequest ==
    ASSUME TypeOK, RequestsOK, Kept, NEW r \in Requests, NEW q \in Request, RequestOK(q)',
           req' = [req EXCEPT ![r] = q]
    PROVE  RequestsOK' /\ req' \in [Requests -> Request] /\ req'[r] = q
<1>1. req' \in [Requests -> Request] /\ req'[r] = q
  BY DEF TypeOK
<1>2. ASSUME NEW s \in Requests PROVE RequestOK(req[s])'
  <2>1. CASE s = r
    <3>1. req'[s] = q
      BY <2>1 DEF TypeOK
    <3> QED BY <3>1 DEF RequestOK, Live
  <2>2. CASE s # r
    <3>1. req'[s] = req[s]
      BY <2>2 DEF TypeOK
    <3>2. PICK x : x = req[s] /\ RequestOK(x)
      BY DEF RequestsOK
    <3>3. RequestOK(x)'
      BY <3>2, RequestKept
    <3> QED BY <3>1, <3>2, <3>3 DEF RequestOK, Live
  <2> QED BY <2>1, <2>2
<1> QED BY <1>1, <1>2 DEF RequestsOK

\* Requests that stay as they are.
LEMMA NoRequest ==
    ASSUME TypeOK, RequestsOK, Kept, UNCHANGED req
    PROVE  RequestsOK' /\ req' \in [Requests -> Request]
<1>1. ASSUME NEW s \in Requests PROVE RequestOK(req[s])'
  <2>1. PICK x : x = req[s] /\ RequestOK(x)
    BY DEF RequestsOK
  <2>2. RequestOK(x)'
    BY <2>1, RequestKept
  <2> QED BY <2>1, <2>2 DEF RequestOK, Live
<1> QED BY <1>1 DEF RequestsOK, TypeOK

\* A step that issues nothing keeps the count when nothing counts as rotated.
LEMMA SameCount ==
    ASSUME TypeOK, Counted, issued' = issued, \A r \in Requests : req'[r].outcome = "rotated" <=> req[r].outcome = "rotated"
    PROVE  Counted'
<1>1. Rotated' = Rotated
  BY DEF Rotated
<1> QED BY <1>1 DEF Counted

\* A session that ends keeps everything about its credentials.
Ended ==
    /\ session' \in [Sessions -> Row] /\ UNCHANGED <<ledger, issued>>
    /\ \A s \in Sessions : /\ session'[s].selector = session[s].selector
                           /\ session'[s].validator = session[s].validator
                           /\ ~Live(s) => ~Live(s)'
                           /\ session'[s].state # "revoked" => session[s].state # "revoked"

LEMMA EndedKeeps ==
    ASSUME TypeOK, IssuedOK, CurrentOK, LedgerOK, FamilyIsLinear, Ended
    PROVE  IssuedOK' /\ CurrentOK' /\ LedgerOK' /\ FamilyIsLinear' /\ Kept
<1>1. \A c \in issued : c.session \in Sessions
  BY DEF TypeOK, Credential
<1>2. IssuedOK'
  BY <1>1 DEF IssuedOK, Ended
<1>3. CurrentOK'
  BY DEF CurrentOK, Ended
<1>4. LedgerOK'
  BY DEF LedgerOK, Ended
<1>5. FamilyIsLinear'
  BY <1>1 DEF FamilyIsLinear, Ended
<1>6. Kept
  BY DEF Kept, Ended, Live
<1> QED BY <1>2, <1>3, <1>4, <1>5, <1>6

\* A presented credential names its session: the one a search finds for it.
LEMMA PresentedOK ==
    ASSUME RotationInv, NEW c \in Presentable
    PROVE  /\ c \in Credential
           /\ c \in issued \/ c.validator = Unknown
           /\ c.selected => session[c.session].selector
           /\ \A s \in Located(c) \cup LogoutFinds(c) : s \in Sessions /\ s = c.session
<1> USE DEF RotationInv
<1>1. CASE c \in issued
  <2>1. c \in Credential /\ (c.selected => session[c.session].selector)
    BY <1>1 DEF TypeOK, IssuedOK
  <2>2. ASSUME NEW s \in Sessions, session[s].validator = c.validator PROVE s = c.session
    BY <1>1, <2>2 DEF CurrentOK, IssuedOK
  <2>3. ASSUME NEW s \in Sessions, <<c.validator, s>> \in ledger PROVE s = c.session
    <3>1. c.validator \in Validators
      BY <2>3 DEF TypeOK
    <3> QED BY <1>1, <2>3, <3>1 DEF LedgerOK, IssuedOK
  <2> QED BY <1>1, <2>1, <2>2, <2>3 DEF Located, LogoutFinds
<1>2. CASE c \notin issued
  <2>1. PICK t \in Sessions : session[t].selector /\ c = Forged(t)
    BY <1>2 DEF Presentable
  <2>2. c \in Credential /\ c.session = t /\ c.selected /\ c.validator = Unknown
    BY <2>1 DEF Forged, Credential, Unknown
  <2> QED BY <2>1, <2>2 DEF Located, LogoutFinds
<1> QED BY <1>1, <1>2

\* A step that touches no row and leaves one request.
LEMMA RequestStep ==
    ASSUME RotationInv, UNCHANGED <<session, ledger, issued>>, NEW r \in Requests,
           NEW q \in Request, RequestOK(q)', req' = [req EXCEPT ![r] = q],
           req[r].outcome # "rotated", q.outcome # "rotated"
    PROVE  RotationInv'
<1> USE DEF RotationInv
<1>1. Kept
  BY DEF Kept, Live
<1>2. RequestsOK' /\ req' \in [Requests -> Request] /\ req'[r] = q
  BY <1>1, OneRequest
<1>3. \A x \in Requests : req'[x].outcome = "rotated" <=> req[x].outcome = "rotated"
  BY <1>2 DEF TypeOK
<1>4. Counted'
  BY <1>3, SameCount
<1>5. TypeOK'
  BY <1>2 DEF TypeOK
<1>6. IssuedOK' /\ CurrentOK' /\ LedgerOK' /\ FamilyIsLinear'
  BY DEF IssuedOK, CurrentOK, LedgerOK, FamilyIsLinear
<1> QED BY <1>2, <1>4, <1>5, <1>6

LEMMA LocateStep ==
    ASSUME RotationInv, NEW r \in Requests, NEW c \in Presentable, Locate(r, c)
    PROVE  RotationInv'
<1>1. /\ c \in Credential /\ (c \in issued \/ c.validator = Unknown)
      /\ \A s \in Located(c) : s \in Sessions /\ s = c.session
  BY PresentedOK
<1>2. req[r].outcome # "rotated" /\ UNCHANGED <<session, ledger, issued>>
  BY DEF Locate, RotationInv, RequestsOK, RequestOK
<1>3. CASE req' = [req EXCEPT ![r] = [NewRequest EXCEPT !.pc = "done", !.op = "refresh",
                                                       !.cred = c, !.outcome = "invalid"]]
  <2>1. PICK q : q = [NewRequest EXCEPT !.pc = "done", !.op = "refresh",
                                        !.cred = c, !.outcome = "invalid"]
    OBVIOUS
  <2>2. /\ q \in Request /\ q.pc = "done" /\ q.op = "refresh" /\ q.cred = c
        /\ q.outcome = "invalid"
    BY <1>1, <2>1 DEF NewRequest, Request
  <2>3. RequestOK(q)'
    BY <1>1, <2>2 DEF RequestOK, Active
  <2> QED BY <1>2, <1>3, <2>1, <2>2, <2>3, RequestStep
<1>4. ASSUME NEW s \in Located(c),
             req' = [req EXCEPT ![r] = [NewRequest EXCEPT !.pc = "rotate", !.op = "refresh",
                                                         !.cred = c, !.session = s]]
      PROVE  RotationInv'
  <2>1. PICK q : q = [NewRequest EXCEPT !.pc = "rotate", !.op = "refresh",
                                        !.cred = c, !.session = s]
    OBVIOUS
  <2>2. /\ q \in Request /\ q.pc = "rotate" /\ q.op = "refresh" /\ q.cred = c
        /\ q.session = s /\ q.outcome = "none"
    BY <1>1, <2>1 DEF NewRequest, Request
  <2>3. RequestOK(q)'
    BY <1>1, <1>2, <2>2 DEF RequestOK, Active
  <2> QED BY <1>2, <1>4, <2>1, <2>2, <2>3, RequestStep
<1> QED BY <1>3, <1>4 DEF Locate

LEMMA LogoutStep ==
    ASSUME RotationInv, NEW r \in Requests, NEW c \in Presentable, Logout(r, c)
    PROVE  RotationInv'
<1>1. /\ c \in Credential /\ (c \in issued \/ c.validator = Unknown)
      /\ c.selected => session[c.session].selector
      /\ \A s \in LogoutFinds(c) : s \in Sessions /\ s = c.session
  BY PresentedOK
<1>2. req[r].outcome # "rotated" /\ UNCHANGED <<session, ledger, issued>>
  BY DEF Logout, RotationInv, RequestsOK, RequestOK
<1>3. ASSUME \A s \in LogoutFinds(c) : ~Live(s),
             req' = [req EXCEPT ![r] = [NewRequest EXCEPT !.pc = "done", !.op = "logout",
                                                         !.cred = c, !.outcome = "invalid"]]
      PROVE  RotationInv'
  <2>1. PICK q : q = [NewRequest EXCEPT !.pc = "done", !.op = "logout",
                                        !.cred = c, !.outcome = "invalid"]
    OBVIOUS
  <2>2. /\ q \in Request /\ q.pc = "done" /\ q.op = "logout" /\ q.cred = c
        /\ q.outcome = "invalid"
    BY <1>1, <2>1 DEF NewRequest, Request
  <2>3. c.selected => ~Live(c.session)
    <3>1. c.selected => c.session \in LogoutFinds(c)
      BY <1>1 DEF LogoutFinds, Credential
    <3> QED BY <1>3, <3>1
  <2>4. RequestOK(q)'
    BY <1>1, <1>2, <2>2, <2>3 DEF RequestOK, Active, Live
  <2> QED BY <1>2, <1>3, <2>1, <2>2, <2>4, RequestStep
<1>4. ASSUME NEW s \in LogoutFinds(c),
             req' = [req EXCEPT ![r] = [NewRequest EXCEPT !.pc = "logout", !.op = "logout",
                                                         !.cred = c, !.session = s]]
      PROVE  RotationInv'
  <2>1. PICK q : q = [NewRequest EXCEPT !.pc = "logout", !.op = "logout",
                                        !.cred = c, !.session = s]
    OBVIOUS
  <2>2. /\ q \in Request /\ q.pc = "logout" /\ q.op = "logout" /\ q.cred = c
        /\ q.session = s /\ q.outcome = "none"
    BY <1>1, <2>1 DEF NewRequest, Request
  <2>3. RequestOK(q)'
    BY <1>1, <1>2, <2>2 DEF RequestOK, Active
  <2> QED BY <1>2, <1>4, <2>1, <2>2, <2>3, RequestStep
<1> QED BY <1>3, <1>4 DEF Logout

\* The request ends without a new credential.
LEMMA DoneStep ==
    ASSUME RotationInv, NEW r \in Requests, req[r].pc \in Active, Ended,
           NEW outcome \in {"replayed", "invalid", "revoked"}, Done(r, outcome),
           req[r].pc = "logout" => session'[req[r].session].state # "live"
    PROVE  RotationInv'
<1> USE DEF RotationInv
<1>1. PICK x : x = req[r]
  OBVIOUS
<1>2. x \in Request /\ RequestOK(x) /\ x.pc \in Active /\ x.outcome = "none"
  BY <1>1 DEF TypeOK, RequestsOK, RequestOK, Active
<1>3. PICK q : q = [x EXCEPT !.pc = "done", !.outcome = outcome]
  OBVIOUS
<1>4. /\ q \in Request /\ q.pc = "done" /\ q.outcome = outcome
      /\ q.op = x.op /\ q.cred = x.cred /\ q.session = x.session
  BY <1>2, <1>3 DEF Request
<1>5. IssuedOK' /\ CurrentOK' /\ LedgerOK' /\ FamilyIsLinear' /\ Kept
  BY EndedKeeps
<1>6. RequestOK(q)'
  <2>1. q.cred \in Credential /\ q.cred.session = x.session
    BY <1>2, <1>4 DEF RequestOK
  <2>2. q.op = "logout" => ~Live(q.cred.session)'
    BY <1>1, <1>2, <1>4, <2>1 DEF RequestOK, Active, Live
  <2> QED BY <1>4, <2>1, <2>2 DEF RequestOK, Active
<1>7. req' = [req EXCEPT ![r] = q]
  BY <1>1, <1>3 DEF Done, TypeOK
<1>8. RequestsOK' /\ req' \in [Requests -> Request] /\ req'[r] = q
  BY <1>4, <1>5, <1>6, <1>7, OneRequest
<1>9. \A y \in Requests : req'[y].outcome = "rotated" <=> req[y].outcome = "rotated"
  BY <1>1, <1>2, <1>4, <1>7, <1>8 DEF TypeOK
<1>10. Counted'
  BY <1>9, SameCount DEF Ended
<1>11. TypeOK'
  BY <1>8 DEF TypeOK, Ended
<1> QED BY <1>5, <1>8, <1>10, <1>11

\* One session that has not ended, or is not revoked yet, ends.
LEMMA EndsOne ==
    ASSUME TypeOK, NEW s \in Sessions, NEW st \in {"revoked", "expired"},
           st = "revoked" \/ Live(s), session' = [session EXCEPT ![s].state = st],
           UNCHANGED <<ledger, issued>>
    PROVE  Ended /\ session'[s].state = st /\ \A t \in Sessions : t # s => session'[t] = session[t]
<1>1. \A t \in Sessions : session[t] \in Row
  BY DEF TypeOK
<1>2. [session[s] EXCEPT !.state = st] \in Row
  BY <1>1 DEF Row
<1>3. /\ session'[s] = [session[s] EXCEPT !.state = st]
      /\ \A t \in Sessions : t # s => session'[t] = session[t]
  BY DEF TypeOK
<1>4. /\ session'[s].selector = session[s].selector
      /\ session'[s].validator = session[s].validator
      /\ session'[s].state = st
  BY <1>1, <1>3 DEF Row
<1>5. session' \in [Sessions -> Row]
  BY <1>2 DEF TypeOK
<1> QED BY <1>3, <1>4, <1>5 DEF Live, Ended

\* Nothing that happens to the sessions.
LEMMA EndsNone ==
    ASSUME TypeOK, UNCHANGED <<session, ledger, issued>>
    PROVE  Ended
BY DEF TypeOK, Ended, Live

\* The current validator is replaced and remembered.
LEMMA ReplaceStep ==
    ASSUME RotationInv, NEW r \in Requests, req[r].pc \in {"rotate", "again"},
           IsCurrent(r), Live(req[r].session), Done(r, "rotated"),
           ledger' = ledger \cup Consumed(req[r].session),
           session' = [session EXCEPT ![req[r].session].selector = TRUE,
                                      ![req[r].session].validator = NextValidator],
           issued' = issued \cup {[session |-> req[r].session, selected |-> TRUE,
                                   validator |-> NextValidator,
                                   parent |-> req[r].cred.validator]}
    PROVE  RotationInv'
<1> USE DEF RotationInv
<1>1. PICK x, s, v, p : x = req[r] /\ s = x.session /\ v = NextValidator /\ p = session[s].validator
  OBVIOUS
<1>2. /\ x \in Request /\ RequestOK(x) /\ x.pc \in Active /\ x.outcome = "none" /\ s \in Sessions
      /\ x.op = "refresh" /\ x.cred \in Credential /\ x.cred.validator = p
  BY <1>1 DEF TypeOK, RequestsOK, RequestOK, Active, IsCurrent
<1>3. /\ Cardinality(issued) \in Nat /\ v \in Validators /\ IsFiniteSet(Rotated) /\ r \notin Rotated
      /\ v = Cardinality(issued) + 1
  BY <1>1, <1>2, RoomForNext DEF NextValidator
<1>4. p \in Validators /\ session[s] \in Row
  BY <1>1, <1>2 DEF TypeOK, Row
<1>5. PICK n : n = [session |-> s, selected |-> TRUE, validator |-> v, parent |-> p]
  OBVIOUS
<1>6. /\ n \in Credential /\ n.session = s /\ n.selected /\ n.validator = v /\ n.parent = p
  BY <1>2, <1>3, <1>4, <1>5 DEF Credential
<1>7. issued' = issued \cup {n} /\ ledger' = ledger \cup {<<p, s>>}
  BY <1>1, <1>2, <1>5 DEF Consumed
<1>8. /\ session' \in [Sessions -> Row]
      /\ session'[s].selector /\ session'[s].validator = v /\ session'[s].state = session[s].state
      /\ \A t \in Sessions : t # s => session'[t] = session[t]
  BY <1>1, <1>2, <1>3, <1>4 DEF TypeOK, Row
<1>9. /\ \A c \in issued : c.validator # v /\ c.validator \in 1 .. Cardinality(issued)
      /\ n \notin issued
  BY <1>3, <1>6 DEF IssuedOK
<1>10. IsFiniteSet(issued') /\ Cardinality(issued') = Cardinality(issued) + 1
  BY <1>7, <1>9, FS_AddElement DEF Counted
<1>11. \A c \in issued : c.session \in Sessions /\ c \in Credential
  BY DEF TypeOK, Credential
<1>12. IssuedOK'
  <2>1. \A c \in issued' : c.validator \in 1 .. Cardinality(issued')
    BY <1>3, <1>6, <1>7, <1>9, <1>10
  <2>2. \A c \in issued' : c.selected => session'[c.session].selector
    BY <1>6, <1>7, <1>8, <1>11 DEF IssuedOK
  <2>3. \A c, d \in issued' : c.validator = d.validator => c = d
    BY <1>6, <1>7, <1>9 DEF IssuedOK
  <2> QED BY <2>1, <2>2, <2>3 DEF IssuedOK
<1>13. CurrentOK'
  <2>1. ASSUME NEW t \in Sessions
        PROVE  \E c \in issued' : c.session = t /\ c.validator = session'[t].validator
    <3>1. CASE t = s
      BY <1>6, <1>7, <1>8, <3>1
    <3>2. CASE t # s
      <4>1. PICK c \in issued : c.session = t /\ c.validator = session[t].validator
        BY DEF CurrentOK
      <4>2. session'[t] = session[t] /\ c \in issued'
        BY <1>7, <1>8, <3>2
      <4> QED BY <4>1, <4>2
    <3> QED BY <3>1, <3>2
  <2> QED BY <2>1 DEF CurrentOK
<1>14. LedgerOK'
  <2>1. ASSUME NEW w \in Validators, NEW t \in Sessions, <<w, t>> \in ledger'
        PROVE  \E c \in issued' : c.session = t /\ c.validator = w
    <3>1. CASE <<w, t>> \in ledger
      BY <1>7, <3>1 DEF LedgerOK
    <3>2. CASE w = p /\ t = s
      BY <1>1, <1>2, <1>7, <3>2 DEF CurrentOK
    <3> QED BY <1>7, <2>1, <3>1, <3>2
  <2>2. ASSUME NEW t \in Sessions, NEW u \in Sessions PROVE <<session'[t].validator, u>> \notin ledger'
    <3>1. CASE t = s
      <4>1. <<v, u>> \notin ledger
        BY <1>3, <1>9 DEF LedgerOK
      <4>2. v # p
        BY <1>1, <1>2, <1>9 DEF CurrentOK
      <4> QED BY <1>7, <1>8, <3>1, <4>1, <4>2
    <3>2. CASE t # s
      <4>1. session[t].validator # p
        BY <1>1, <1>2, <3>2 DEF CurrentOK, IssuedOK
      <4> QED BY <1>7, <1>8, <3>2, <4>1 DEF LedgerOK
    <3> QED BY <3>1, <3>2
  <2>3. \A c \in issued' : c.parent # Unknown => <<c.parent, c.session>> \in ledger'
    BY <1>6, <1>7 DEF LedgerOK
  <2> QED BY <2>1, <2>2, <2>3 DEF LedgerOK
<1>15. FamilyIsLinear'
  <2>1. \A c \in issued : c.parent # p
    <3>1. p # Unknown
      BY <1>1, <1>2, RotationAssumption DEF CurrentOK, IssuedOK, Unknown
    <3> QED BY <1>1, <1>2, <1>11, <3>1 DEF LedgerOK
  <2>2. \A c, d \in issued' : c.parent # Unknown /\ c.parent = d.parent => c = d
    BY <1>6, <1>7, <2>1 DEF FamilyIsLinear
  <2>3. ASSUME NEW c \in issued', session'[c.session].state # "revoked"
        PROVE  session'[c.session].validator = c.validator \/ <<c.validator, c.session>> \in ledger'
    <3>1. CASE c = n
      BY <1>6, <1>8, <3>1
    <3>2. CASE c \in issued /\ c.session = s
      <4>1. session[s].state # "revoked"
        BY <1>8, <2>3, <3>2
      <4> QED BY <1>1, <1>7, <3>2, <4>1 DEF FamilyIsLinear
    <3>3. CASE c \in issued /\ c.session # s
      <4>1. session'[c.session] = session[c.session]
        BY <1>8, <1>11, <3>3
      <4> QED BY <1>7, <2>3, <3>3, <4>1 DEF FamilyIsLinear
    <3> QED BY <1>7, <3>1, <3>2, <3>3
  <2> QED BY <2>2, <2>3 DEF FamilyIsLinear
<1>16. PICK q : q = [x EXCEPT !.pc = "done", !.outcome = "rotated"]
  OBVIOUS
<1>17. /\ q \in Request /\ q.pc = "done" /\ q.outcome = "rotated"
       /\ q.op = "refresh" /\ q.cred = x.cred
  BY <1>2, <1>16 DEF Request
<1>18. Kept
  BY <1>7, <1>8 DEF Kept, Live
<1>19. RequestOK(q)'
  BY <1>2, <1>17 DEF RequestOK, Active
<1>20. req' = [req EXCEPT ![r] = q]
  BY <1>1, <1>16 DEF Done, TypeOK
<1>21. RequestsOK' /\ req' \in [Requests -> Request] /\ req'[r] = q
  BY <1>17, <1>18, <1>19, <1>20, OneRequest
<1>22. Counted'
  <2>1. Rotated' = Rotated \cup {r}
    BY <1>17, <1>20, <1>21 DEF Rotated, TypeOK
  <2>2. Cardinality(Rotated') = Cardinality(Rotated) + 1
    BY <1>3, <2>1, FS_AddElement
  <2>3. Cardinality(Rotated) \in Nat /\ Cardinality(Sessions) \in Nat
    BY <1>3, FS_CardinalityType, RotationAssumption
  <2> QED BY <1>3, <1>10, <2>2, <2>3 DEF Counted
<1>23. TypeOK'
  BY <1>2, <1>4, <1>6, <1>7, <1>8, <1>21 DEF TypeOK
<1> QED BY <1>12, <1>13, <1>14, <1>15, <1>21, <1>22, <1>23

LEMMA RotateStep ==
    ASSUME RotationInv, NEW r \in Requests, Rotate(r)
    PROVE  RotationInv'
<1> DEFINE s == req[r].session
<1>1. /\ TypeOK /\ req[r].pc \in Active /\ req[r].pc # "logout" /\ s \in Sessions
      /\ req[r].outcome = "none"
  BY DEF Rotate, RotationInv, RequestsOK, RequestOK, Active
<1>2. CASE Done(r, "invalid") /\ UNCHANGED <<session, ledger, issued>>
  <2>1. Ended
    BY <1>1, <1>2, EndsNone
  <2> QED BY <1>1, <1>2, <2>1, DoneStep
<1>3. CASE /\ session' = [session EXCEPT ![s].state = "revoked"]
           /\ Done(r, "replayed") /\ UNCHANGED <<ledger, issued>>
  <2>1. Ended
    BY <1>1, <1>3, EndsOne
  <2> QED BY <1>1, <1>3, <2>1, DoneStep
<1>4. CASE req' = [req EXCEPT ![r].pc = "observe"] /\ UNCHANGED <<session, ledger, issued>>
  <2>1. PICK x : x = req[r]
    OBVIOUS
  <2>2. x \in Request /\ RequestOK(x) /\ x.pc \in Active /\ x.pc # "logout"
    BY <1>1, <2>1 DEF TypeOK, RotationInv, RequestsOK
  <2>3. PICK q : q = [x EXCEPT !.pc = "observe"]
    OBVIOUS
  <2>4. /\ q \in Request /\ q.pc = "observe" /\ q.session = x.session /\ q.cred = x.cred
        /\ q.op = x.op /\ q.outcome = x.outcome
    BY <2>2, <2>3 DEF Request
  <2>5. RequestOK(q)'
    BY <1>1, <1>4, <2>1, <2>2, <2>4 DEF RequestOK, Active
  <2>6. req' = [req EXCEPT ![r] = q]
    BY <1>1, <1>4, <2>1, <2>3 DEF TypeOK
  <2> QED BY <1>1, <1>4, <2>1, <2>4, <2>5, <2>6, RequestStep
<1>5. CASE /\ Live(s) /\ IsCurrent(r) /\ ledger' = ledger \cup Consumed(s)
           /\ session' = [session EXCEPT ![s].selector = TRUE, ![s].validator = NextValidator]
           /\ issued' = issued \cup {[session |-> s, selected |-> TRUE,
                                      validator |-> NextValidator,
                                      parent |-> req[r].cred.validator]}
           /\ Done(r, "rotated")
  BY <1>5, ReplaceStep DEF Rotate
<1> QED BY <1>2, <1>3, <1>4, <1>5 DEF Rotate

LEMMA ObserveStep ==
    ASSUME RotationInv, NEW r \in Requests, ObserveMarker(r)
    PROVE  RotationInv'
<1>1. TypeOK /\ req[r].pc = "observe" /\ UNCHANGED <<session, ledger, issued>>
  BY DEF ObserveMarker, RotationInv
<1>2. CASE Done(r, "invalid")
  <2>1. Ended /\ req[r].pc \in Active
    BY <1>1, EndsNone DEF Active
  <2> QED BY <1>1, <1>2, <2>1, DoneStep
<1>3. CASE req' = [req EXCEPT ![r].pc = "again"]
  <2>1. PICK x : x = req[r]
    OBVIOUS
  <2>2. x \in Request /\ RequestOK(x) /\ x.pc = "observe"
    BY <1>1, <2>1 DEF TypeOK, RotationInv, RequestsOK
  <2>3. PICK q : q = [x EXCEPT !.pc = "again"]
    OBVIOUS
  <2>4. /\ q \in Request /\ q.pc = "again" /\ q.session = x.session /\ q.cred = x.cred
        /\ q.op = x.op /\ q.outcome = x.outcome
    BY <2>2, <2>3 DEF Request
  <2>5. RequestOK(q)' /\ x.outcome = "none"
    BY <1>1, <2>2, <2>4 DEF RequestOK, Active
  <2>6. req' = [req EXCEPT ![r] = q]
    BY <1>1, <1>3, <2>1, <2>3 DEF TypeOK
  <2> QED BY <1>1, <2>1, <2>4, <2>5, <2>6, RequestStep
<1> QED BY <1>2, <1>3 DEF ObserveMarker

LEMMA RevokeStep ==
    ASSUME RotationInv, NEW r \in Requests, RevokeLocated(r)
    PROVE  RotationInv'
<1> DEFINE s == req[r].session
<1>1. TypeOK /\ req[r].pc = "logout" /\ req[r].pc \in Active /\ s \in Sessions
  BY DEF RevokeLocated, RotationInv, RequestsOK, RequestOK, Active
<1>2. CASE Live(s)
  <2>1. /\ session' = [session EXCEPT ![s].state = "revoked"]
        /\ Done(r, "revoked") /\ UNCHANGED <<ledger, issued>>
    BY <1>2 DEF RevokeLocated
  <2>2. Ended /\ session'[s].state = "revoked"
    BY <1>1, <2>1, EndsOne
  <2> QED BY <1>1, <2>1, <2>2, DoneStep
<1>3. CASE ~Live(s)
  <2>1. UNCHANGED <<session, ledger, issued>> /\ Done(r, "invalid")
    BY <1>3 DEF RevokeLocated
  <2>2. Ended /\ session'[s].state # "live"
    BY <1>1, <1>3, <2>1, EndsNone DEF Live
  <2> QED BY <1>1, <2>1, <2>2, DoneStep
<1> QED BY <1>2, <1>3

\* The ends of a session and the changes of the account.
LEMMA OtherStep ==
    ASSUME RotationInv, UNCHANGED req, Ended
    PROVE  RotationInv'
<1> USE DEF RotationInv
<1>1. IssuedOK' /\ CurrentOK' /\ LedgerOK' /\ FamilyIsLinear' /\ Kept
  BY EndedKeeps
<1>2. RequestsOK' /\ req' \in [Requests -> Request]
  BY <1>1, NoRequest
<1>3. Counted'
  BY SameCount DEF Ended
<1>4. TypeOK'
  BY <1>2 DEF TypeOK, Ended
<1> QED BY <1>1, <1>2, <1>3, <1>4

-----------------------------------------------------------------------------
(* The invariant. *)

LEMMA InitInv == Init => RotationInv
<1> SUFFICES ASSUME Init PROVE RotationInv
  OBVIOUS
<1>1. PICK number \in [Sessions -> 1 .. Cardinality(Sessions)] :
         /\ \A s, t \in Sessions : number[s] = number[t] => s = t
         /\ session = [s \in Sessions |-> [selector |-> s \notin Legacy,
                                           validator |-> number[s], state |-> "live"]]
         /\ issued = {[session |-> s, selected |-> s \notin Legacy, validator |-> number[s],
                       parent |-> Unknown] : s \in Sessions}
  BY DEF Init
<1> DEFINE cred(s) == [session |-> s, selected |-> s \notin Legacy, validator |-> number[s],
                       parent |-> Unknown]
<1>2. ledger = {} /\ \A r \in Requests : req[r] = NewRequest
  BY DEF Init
<1>3. Cardinality(Sessions) \in Nat /\ Cardinality(Requests) \in Nat
  BY RotationAssumption, FS_CardinalityType
<1>4. \A s \in Sessions : number[s] \in 1 .. Cardinality(Sessions) /\ number[s] \in Validators
  BY <1>3 DEF Validators
<1>5. /\ \A s \in Sessions : /\ cred(s).session = s /\ cred(s).validator = number[s]
                             /\ cred(s).parent = Unknown /\ cred(s).selected = (s \notin Legacy)
      /\ \A c \in issued : \E s \in Sessions : c = cred(s)
      /\ \A s \in Sessions : cred(s) \in issued
  BY <1>1
<1>6. \A s \in Sessions : /\ session[s].selector = (s \notin Legacy)
                          /\ session[s].validator = number[s] /\ session[s].state = "live"
  BY <1>1
<1>7. TypeOK
  <2>1. session \in [Sessions -> Row]
    BY <1>1, <1>4 DEF Row
  <2>2. ASSUME NEW s \in Sessions PROVE cred(s) \in Credential
    BY <1>4 DEF Credential, Unknown
  <2>3. issued \subseteq Credential
    BY <1>5, <2>2
  <2>4. req \in [Requests -> Request]
    BY DEF Init, NewRequest, Request
  <2> QED BY <1>2, <2>1, <2>3, <2>4 DEF TypeOK
<1>8. IsFiniteSet(issued) /\ Cardinality(issued) = Cardinality(Sessions)
  <2> DEFINE f == [s \in Sessions |-> cred(s)]
  <2>1. f \in [Sessions -> issued] /\ \A s \in Sessions : f[s] = cred(s)
    BY <1>5
  <2> HIDE DEF f
  <2>2. \A s, t \in Sessions : f[s] = f[t] => s = t
    BY <1>5, <2>1
  <2>3. \A c \in issued : \E s \in Sessions : f[s] = c
    BY <1>5, <2>1
  <2>4. f \in Bijection(Sessions, issued)
    BY <2>1, <2>2, <2>3 DEF Bijection, Injection, Surjection, IsInjective
  <2> QED BY <2>4, FS_Bijection, RotationAssumption DEF ExistsBijection
<1>9. Counted
  <2>1. Rotated = {}
    BY <1>2 DEF Rotated, NewRequest
  <2> QED BY <1>3, <1>8, <2>1, FS_EmptySet DEF Counted
<1>10. IssuedOK
  <2>1. \A c \in issued : c.validator \in 1 .. Cardinality(issued)
    BY <1>4, <1>5, <1>8
  <2>2. \A c \in issued : c.selected => session[c.session].selector
    BY <1>5, <1>6
  <2>3. \A c, d \in issued : c.validator = d.validator => c = d
    BY <1>1, <1>5
  <2> QED BY <2>1, <2>2, <2>3 DEF IssuedOK
<1>11. CurrentOK
  BY <1>5, <1>6 DEF CurrentOK
<1>12. LedgerOK
  BY <1>2, <1>5 DEF LedgerOK
<1>13. FamilyIsLinear
  BY <1>5, <1>6 DEF FamilyIsLinear
<1>14. RequestsOK
  BY <1>2 DEF RequestsOK, RequestOK, NewRequest, Active
<1> QED BY <1>7, <1>9, <1>10, <1>11, <1>12, <1>13, <1>14 DEF RotationInv

LEMMA StepInv == RotationInv /\ [Next]_rotationVars => RotationInv'
<1> SUFFICES ASSUME RotationInv, [Next]_rotationVars PROVE RotationInv'
  OBVIOUS
<1>1. ASSUME NEW r \in Requests, NEW c \in Presentable, Locate(r, c) \/ Logout(r, c)
      PROVE  RotationInv'
  BY <1>1, LocateStep, LogoutStep
<1>2. ASSUME NEW r \in Requests, Rotate(r) \/ ObserveMarker(r) \/ RevokeLocated(r)
      PROVE  RotationInv'
  BY <1>2, RotateStep, ObserveStep, RevokeStep
<1>3. ASSUME NEW s \in Sessions, EndSession(s, "revoked") \/ EndSession(s, "expired")
      PROVE  RotationInv'
  <2>1. Ended
    BY <1>3, EndsOne DEF EndSession, RotationInv
  <2> QED BY <1>3, <2>1, OtherStep DEF EndSession
<1>4. CASE ChangeAccount \/ UNCHANGED rotationVars
  <2>1. Ended /\ UNCHANGED req
    BY <1>4, EndsNone DEF ChangeAccount, rotationVars, RotationInv
  <2> QED BY <2>1, OtherStep
<1> QED BY <1>1, <1>2, <1>3, <1>4 DEF Next

LEMMA InvHolds == Spec => []RotationInv
BY InitInv, StepInv, PTL DEF Spec

-----------------------------------------------------------------------------
(* The theorems. *)

\* Every row, credential and request has its type; in particular the validators
\* never run out of numbers.
THEOREM RotationTypeCorrect == Spec => []TypeOK
<1>1. RotationInv => TypeOK
  BY DEF RotationInv
<1> QED BY <1>1, InvHolds, PTL

\* However many refreshes present a credential at once, rotateRefreshCredential
\* exchanges it at most once, and a credential that is not current any more is
\* in the ledger of the session unless the session is revoked.
THEOREM FamilyHolds == Spec => []FamilyIsLinear
<1>1. RotationInv => FamilyIsLinear
  BY DEF RotationInv
<1> QED BY <1>1, InvHolds, PTL

\* revokeSessionByRefreshToken with a selector credential ends the session for
\* good, whatever refreshes run beside it.
THEOREM LogoutHolds == Spec => []LogoutSticks
<1>1. RotationInv => LogoutSticks
  BY DEF RotationInv, RequestsOK, RequestOK, LogoutSticks
<1> QED BY <1>1, InvHolds, PTL

-----------------------------------------------------------------------------
(* What a step may never do. *)

\* A request that gets done was done by its own step.
LEMMA OwnStep ==
    ASSUME RotationInv, Next, NEW r \in Requests, req[r].pc \in Active, req'[r].pc = "done"
    PROVE  Rotate(r) \/ ObserveMarker(r) \/ RevokeLocated(r)
<1> DEFINE Other(x) == \A y \in Requests : y # x => req'[y] = req[y]
<1>1. req \in [Requests -> Request]
  BY DEF RotationInv, TypeOK
<1>2. ASSUME NEW x \in Requests, NEW c \in Presentable, Locate(x, c) \/ Logout(x, c) PROVE FALSE
  <2>1. Other(x) /\ req[x].pc = "new"
    BY <1>1, <1>2 DEF Locate, Logout
  <2> QED BY <2>1 DEF Active
<1>3. ASSUME NEW x \in Requests, Rotate(x) \/ ObserveMarker(x) \/ RevokeLocated(x) PROVE Other(x)
  BY <1>1, <1>3 DEF Rotate, ObserveMarker, RevokeLocated, Done
<1>4. ASSUME UNCHANGED req PROVE FALSE
  BY <1>4 DEF Active
<1>5. ASSUME NEW s \in Sessions, EndSession(s, "revoked") \/ EndSession(s, "expired") PROVE FALSE
  BY <1>4, <1>5 DEF EndSession
<1>6. ASSUME ChangeAccount PROVE FALSE
  BY <1>4, <1>6 DEF ChangeAccount
<1>7. PICK x \in Requests : Rotate(x) \/ ObserveMarker(x) \/ RevokeLocated(x)
  BY <1>2, <1>5, <1>6 DEF Next
<1>8. x = r
  BY <1>3, <1>7 DEF Active
<1> QED BY <1>7, <1>8

\* rotateRefreshCredential answers a consumed credential by leaving its session
\* revoked, whatever the state of the account.
THEOREM ReplayIsNoticed == Spec => ReplayEndsFamily
<1> DEFINE A == \A r \in Requests :
                  /\ req[r].pc \in {"rotate", "again"} /\ req'[r].pc = "done"
                  /\ req[r].cred \in issued
                  /\ req[r].cred.validator # session[req[r].session].validator
                  => session'[req[r].session].state = "revoked"
<1>1. RotationInv /\ [Next]_rotationVars => [A]_rotationVars
  <2> SUFFICES ASSUME RotationInv, Next, NEW r \in Requests,
                      req[r].pc \in {"rotate", "again"}, req'[r].pc = "done",
                      req[r].cred \in issued,
                      req[r].cred.validator # session[req[r].session].validator
               PROVE  session'[req[r].session].state = "revoked"
    OBVIOUS
  <2>1. Rotate(r)
    BY OwnStep DEF Active, ObserveMarker, RevokeLocated
  <2>2. /\ req[r].session \in Sessions /\ req[r].cred.session = req[r].session
        /\ session \in [Sessions -> Row] /\ ~IsCurrent(r)
    BY DEF RotationInv, TypeOK, RequestsOK, RequestOK, Active, IsCurrent
  <2>3. session[req[r].session].state # "revoked" => IsReplay(r)
    BY <2>2 DEF RotationInv, FamilyIsLinear, IsReplay
  <2>4. CASE session[req[r].session].state = "revoked"
    BY <2>1, <2>2, <2>4 DEF Rotate, Live
  <2>5. CASE session[req[r].session].state # "revoked"
    <3>1. session' = [session EXCEPT ![req[r].session].state = "revoked"]
      BY <2>1, <2>2, <2>3, <2>5 DEF Rotate
    <3> QED BY <2>2, <3>1 DEF Row
  <2> QED BY <2>4, <2>5
<1> QED BY <1>1, InvHolds, PTL DEF Spec, ReplayEndsFamily

\* A refresh revokes a session only with a credential issued for that session.
THEOREM GuessIsHarmless == Spec => GuessEndsNothing
<1> DEFINE A == \A s \in Sessions, r \in Requests :
                  /\ session[s].state # "revoked" /\ session'[s].state = "revoked"
                  /\ req[r].op = "refresh" /\ req'[r].pc = "done" /\ req[r].pc # "done"
                  => req[r].cred \in issued /\ req[r].cred.session = s
<1>1. RotationInv /\ [Next]_rotationVars => [A]_rotationVars
  <2> SUFFICES ASSUME RotationInv, Next, NEW s \in Sessions, NEW r \in Requests,
                      session[s].state # "revoked", session'[s].state = "revoked",
                      req[r].op = "refresh", req'[r].pc = "done", req[r].pc # "done"
               PROVE  req[r].cred \in issued /\ req[r].cred.session = s
    OBVIOUS
  <2>1. req \in [Requests -> Request] /\ session \in [Sessions -> Row]
    BY DEF RotationInv, TypeOK
  <2>2. CASE req[r].pc \in Active
    <3>1. /\ req[r].session \in Sessions /\ req[r].cred.session = req[r].session
          /\ req[r].cred \in issued \/ req[r].cred.validator = Unknown
          /\ req[r].pc # "logout"
      BY <2>2 DEF RotationInv, RequestsOK, RequestOK
    <3>2. Rotate(r)
      <4>1. ASSUME ObserveMarker(r) PROVE FALSE
        BY <4>1 DEF ObserveMarker
      <4> QED BY <2>2, <3>1, <4>1, OwnStep DEF RevokeLocated
    <3>3. s = req[r].session /\ IsReplay(r)
      <4>1. session' # session
        OBVIOUS
      <4>2. \/ session' = [session EXCEPT ![req[r].session].state = "revoked"] /\ IsReplay(r)
            \/ session' = [session EXCEPT ![req[r].session].selector = TRUE,
                                          ![req[r].session].validator = NextValidator]
        BY <3>2, <4>1 DEF Rotate
      <4>3. ASSUME session' = [session EXCEPT ![req[r].session].selector = TRUE,
                                              ![req[r].session].validator = NextValidator]
            PROVE  FALSE
        BY <2>1, <3>1, <4>3 DEF Row
      <4> QED BY <2>1, <3>1, <4>2, <4>3 DEF Row
    <3>4. req[r].cred.validator # Unknown
      BY <3>3 DEF RotationInv, TypeOK, IsReplay, Validators, Unknown
    <3> QED BY <3>1, <3>3, <3>4
  <2>3. CASE req[r].pc = "new"
    <3>1. ASSUME NEW x \in Requests, NEW c \in Presentable, Locate(x, c) \/ Logout(x, c) PROVE FALSE
      BY <3>1 DEF Locate, Logout
    <3>2. ASSUME NEW x \in Requests, Rotate(x) \/ ObserveMarker(x) \/ RevokeLocated(x) PROVE FALSE
      <4>1. x # r
        BY <2>3, <3>2 DEF Rotate, ObserveMarker, RevokeLocated
      <4>2. req'[r] = req[r]
        BY <2>1, <3>2, <4>1 DEF Rotate, ObserveMarker, RevokeLocated, Done
      <4> QED BY <2>3, <4>2
    <3>3. ASSUME UNCHANGED req PROVE FALSE
      BY <2>3, <3>3
    <3> QED BY <3>1, <3>2, <3>3 DEF Next, EndSession, ChangeAccount
  <2> QED BY <2>1, <2>2, <2>3 DEF Request, Active
<1> QED BY <1>1, InvHolds, PTL DEF Spec, GuessEndsNothing

-----------------------------------------------------------------------------
(* The other components of the composition; P1 to P4, U1 and U2 are the  *)
(* instances of the modules that prove about them.                        *)

P1 == INSTANCE PeopleProofs WITH
    ImportImports <- None, ImportHandlers <- None, ImportPublishers <- None,
    ImportMaxRetries <- None, ImportCost <- None, ImportInitialCredits <- None,
    ImportMaxFaults <- None, ImportMaxSwitches <- None, importPlan <- None, importTarget
    <- None, importCredits <- None, importDebits <- None, importRefunds <- None,
    importRow <- None, importFile <- None, importQueue <- None, importHandler <- None,
    importCompleted <- None, importPublisher <- None, importFaults <- None,
    importSwitches <- None, importRuns <- None

P2 == INSTANCE PeopleProofs WITH
    MfaSessions <- ReuseSessions, MfaRequests <- ReuseRequests, MfaSteps <- ReuseSteps,
    MfaBackups <- ReuseBackups, MfaDemo <- ReuseDemo, MfaMaxSecrets <- ReuseMaxSecrets,
    MfaMaxChanges <- ReuseMaxChanges, mfaUser <- reuseUser, mfaPolicy <- reusePolicy,
    mfaSession <- reuseSession, mfaClaims <- reuseClaims, mfaMarker <- reuseMarker,
    mfaReq <- reuseReq, mfaDrawn <- reuseDrawn, mfaPassed <- reusePassed, mfaUses <-
    reuseUses, mfaExempt <- reuseExempt, mfaChanges <- reuseChanges, ImportImports <-
    None, ImportHandlers <- None, ImportPublishers <- None, ImportMaxRetries <- None,
    ImportCost <- None, ImportInitialCredits <- None, ImportMaxFaults <- None,
    ImportMaxSwitches <- None, importPlan <- None, importTarget <- None, importCredits
    <- None, importDebits <- None, importRefunds <- None, importRow <- None, importFile
    <- None, importQueue <- None, importHandler <- None, importCompleted <- None,
    importPublisher <- None, importFaults <- None, importSwitches <- None, importRuns <-
    None

P3 == INSTANCE PeopleProofs WITH
    LoginRequests <- CrowdRequests, LoginPasswords <- CrowdPasswords, LoginPins <-
    CrowdPins, LoginEmails <- CrowdEmails, LoginMaxTries <- CrowdMaxTries,
    LoginMaxSessions <- CrowdMaxSessions, LoginMaxChanges <- CrowdMaxChanges,
    loginTenant <- crowdTenant, loginUser <- crowdUser, loginSessions <- crowdSessions,
    loginIssued <- crowdIssued, loginReq <- crowdReq, loginWrong <- crowdWrong,
    loginLapsed <- crowdLapsed, loginChanges <- crowdChanges, ImportImports <- None,
    ImportHandlers <- None, ImportPublishers <- None, ImportMaxRetries <- None,
    ImportCost <- None, ImportInitialCredits <- None, ImportMaxFaults <- None,
    ImportMaxSwitches <- None, importPlan <- None, importTarget <- None, importCredits
    <- None, importDebits <- None, importRefunds <- None, importRow <- None, importFile
    <- None, importQueue <- None, importHandler <- None, importCompleted <- None,
    importPublisher <- None, importFaults <- None, importSwitches <- None, importRuns <-
    None

P4 == INSTANCE PeopleProofs WITH
    LadderUsers <- RaceUsers, LadderCustomRoles <- RaceCustomRoles, LadderRequests <-
    RaceRequests, LadderHired <- RaceHired, LadderPermissionSets <- RacePermissionSets,
    LadderRoleSets <- RaceRoleSets, LadderMaxLogins <- RaceMaxLogins, ladderRole <-
    raceRole, ladderStatus <- raceStatus, ladderLocked <- raceLocked, ladderAssigned <-
    raceAssigned, ladderCustom <- raceCustom, ladderSession <- raceSession, ladderLive
    <- raceLive, ladderRequest <- raceRequest, ImportImports <- None, ImportHandlers <-
    None, ImportPublishers <- None, ImportMaxRetries <- None, ImportCost <- None,
    ImportInitialCredits <- None, ImportMaxFaults <- None, ImportMaxSwitches <- None,
    importPlan <- None, importTarget <- None, importCredits <- None, importDebits <-
    None, importRefunds <- None, importRow <- None, importFile <- None, importQueue <-
    None, importHandler <- None, importCompleted <- None, importPublisher <- None,
    importFaults <- None, importSwitches <- None, importRuns <- None

\* The second factors of the proofs is the one of the composition.
LEMMA MfaSame ==
    /\ P1!Mfa!MfaAssumption <=> Mfa!MfaAssumption
    /\ P1!Mfa!Init <=> Mfa!Init
    /\ P1!Mfa!Next <=> Mfa!Next
    /\ P1!Mfa!TypeOK <=> Mfa!TypeOK
    /\ P1!Mfa!LiveMarkerIsEarned <=> Mfa!LiveMarkerIsEarned
    /\ P1!Mfa!EnrolmentIsSingle <=> Mfa!EnrolmentIsSingle
    /\ P1!Mfa!mfaVars = Mfa!mfaVars
<1>1. P1!Mfa!MfaAssumption <=> Mfa!MfaAssumption
  BY Zenon DEF P1!Mfa!MfaAssumption, Mfa!MfaAssumption
<1>2. P1!Mfa!Init <=> Mfa!Init
  BY Zenon DEF P1!Mfa!Init, Mfa!Init, P1!Mfa!NoMfa, Mfa!NoMfa, P1!Mfa!NoSecret, Mfa!NoSecret,
     P1!Mfa!NewRequest, Mfa!NewRequest, P1!Mfa!Factors, Mfa!Factors, P1!Mfa!Secrets, Mfa!Secrets
<1>3. P1!Mfa!Next <=> Mfa!Next
  BY Zenon DEF P1!Mfa!Next, Mfa!Next, P1!Mfa!Serve, Mfa!Serve, P1!Mfa!MarkVerified,
     Mfa!MarkVerified, P1!Mfa!MarkFails, Mfa!MarkFails, P1!Mfa!ClearMarkers, Mfa!ClearMarkers,
     P1!Mfa!ReadMarker, Mfa!ReadMarker, P1!Mfa!ReadAgain, Mfa!ReadAgain, P1!Mfa!SignIn,
     Mfa!SignIn, P1!Mfa!BeginEnrolment, Mfa!BeginEnrolment, P1!Mfa!EnrolmentExpires,
     Mfa!EnrolmentExpires, P1!Mfa!RevokeSession, Mfa!RevokeSession, P1!Mfa!MarkerExpires,
     Mfa!MarkerExpires, P1!Mfa!RecoverMfa, Mfa!RecoverMfa, P1!Mfa!ChangePolicy,
     Mfa!ChangePolicy, P1!Mfa!ConfirmEnrolment, Mfa!ConfirmEnrolment, P1!Mfa!ValidateMfa,
     Mfa!ValidateMfa, P1!Mfa!DisableMfa, Mfa!DisableMfa, P1!Mfa!ReadSession, Mfa!ReadSession,
     P1!Mfa!StartRefresh, Mfa!StartRefresh, P1!Mfa!SignInExempt, Mfa!SignInExempt, P1!Mfa!Done,
     Mfa!Done, P1!Mfa!history, Mfa!history, P1!Mfa!Revoked, Mfa!Revoked, P1!Mfa!Change,
     Mfa!Change, P1!Mfa!Required, Mfa!Required, P1!Mfa!Live, Mfa!Live, P1!Mfa!NoSecret,
     Mfa!NoSecret, P1!Mfa!NoMfa, Mfa!NoMfa, P1!Mfa!RevokeAll, Mfa!RevokeAll, P1!Mfa!Consumed,
     Mfa!Consumed, P1!Mfa!Used, Mfa!Used, P1!Mfa!Begin, Mfa!Begin, P1!Mfa!Matches, Mfa!Matches,
     P1!Mfa!Consume, Mfa!Consume, P1!Mfa!NewRequest, Mfa!NewRequest, P1!Mfa!NothingPending,
     Mfa!NothingPending
<1>4. P1!Mfa!TypeOK <=> Mfa!TypeOK
  BY Zenon DEF P1!Mfa!TypeOK, Mfa!TypeOK, P1!Mfa!User, Mfa!User, P1!Mfa!Row, Mfa!Row,
     P1!Mfa!Request, Mfa!Request, P1!Mfa!Secrets, Mfa!Secrets, P1!Mfa!NoSecret, Mfa!NoSecret
<1>5. P1!Mfa!LiveMarkerIsEarned <=> Mfa!LiveMarkerIsEarned
  BY Zenon DEF P1!Mfa!LiveMarkerIsEarned, Mfa!LiveMarkerIsEarned, P1!Mfa!Live, Mfa!Live
<1>6. P1!Mfa!EnrolmentIsSingle <=> Mfa!EnrolmentIsSingle
  BY Zenon DEF P1!Mfa!EnrolmentIsSingle, Mfa!EnrolmentIsSingle, P1!Mfa!NoSecret, Mfa!NoSecret
<1>7. P1!Mfa!mfaVars = Mfa!mfaVars
  BY Zenon DEF P1!Mfa!mfaVars, Mfa!mfaVars
<1> QED BY <1>1, <1>2, <1>3, <1>4, <1>5, <1>6, <1>7

LEMMA MfaRuns == MCSpec => P1!Mfa!Spec
<1>1. MCInit => P1!Mfa!Init
  BY MfaSame DEF MCInit
<1>2. [MCNext]_mcVars => [P1!Mfa!Next]_(P1!Mfa!mfaVars)
  <2>1. UNCHANGED mfaVars => UNCHANGED P1!Mfa!mfaVars
    BY DEF mfaVars, P1!Mfa!mfaVars
  <2>2. [MCNext]_mcVars => Mfa!Next \/ UNCHANGED mfaVars
    BY DEF MCNext, mcVars
  <2> QED BY <2>1, <2>2, MfaSame
<1> QED BY <1>1, <1>2, PTL DEF MCSpec, P1!Mfa!Spec

\* The second factors of the proofs is the one of the composition.
LEMMA ReuseSame ==
    /\ P2!Mfa!MfaAssumption <=> Reuse!MfaAssumption
    /\ P2!Mfa!Init <=> Reuse!Init
    /\ P2!Mfa!Next <=> Reuse!Next
    /\ P2!Mfa!FactorUsedOnce <=> Reuse!FactorUsedOnce
    /\ P2!Mfa!mfaVars = Reuse!mfaVars
<1>1. P2!Mfa!MfaAssumption <=> Reuse!MfaAssumption
  BY Zenon DEF P2!Mfa!MfaAssumption, Reuse!MfaAssumption
<1>2. P2!Mfa!Init <=> Reuse!Init
  BY Zenon DEF P2!Mfa!Init, Reuse!Init, P2!Mfa!NoMfa, Reuse!NoMfa, P2!Mfa!NoSecret,
     Reuse!NoSecret, P2!Mfa!NewRequest, Reuse!NewRequest, P2!Mfa!Factors, Reuse!Factors,
     P2!Mfa!Secrets, Reuse!Secrets
<1>3. P2!Mfa!Next <=> Reuse!Next
  BY Zenon DEF P2!Mfa!Next, Reuse!Next, P2!Mfa!Serve, Reuse!Serve, P2!Mfa!MarkVerified,
     Reuse!MarkVerified, P2!Mfa!MarkFails, Reuse!MarkFails, P2!Mfa!ClearMarkers,
     Reuse!ClearMarkers, P2!Mfa!ReadMarker, Reuse!ReadMarker, P2!Mfa!ReadAgain, Reuse!ReadAgain,
     P2!Mfa!SignIn, Reuse!SignIn, P2!Mfa!BeginEnrolment, Reuse!BeginEnrolment,
     P2!Mfa!EnrolmentExpires, Reuse!EnrolmentExpires, P2!Mfa!RevokeSession, Reuse!RevokeSession,
     P2!Mfa!MarkerExpires, Reuse!MarkerExpires, P2!Mfa!RecoverMfa, Reuse!RecoverMfa,
     P2!Mfa!ChangePolicy, Reuse!ChangePolicy, P2!Mfa!ConfirmEnrolment, Reuse!ConfirmEnrolment,
     P2!Mfa!ValidateMfa, Reuse!ValidateMfa, P2!Mfa!DisableMfa, Reuse!DisableMfa,
     P2!Mfa!ReadSession, Reuse!ReadSession, P2!Mfa!StartRefresh, Reuse!StartRefresh,
     P2!Mfa!SignInExempt, Reuse!SignInExempt, P2!Mfa!Done, Reuse!Done, P2!Mfa!history,
     Reuse!history, P2!Mfa!Revoked, Reuse!Revoked, P2!Mfa!Change, Reuse!Change, P2!Mfa!Required,
     Reuse!Required, P2!Mfa!Live, Reuse!Live, P2!Mfa!NoSecret, Reuse!NoSecret, P2!Mfa!NoMfa,
     Reuse!NoMfa, P2!Mfa!RevokeAll, Reuse!RevokeAll, P2!Mfa!Consumed, Reuse!Consumed,
     P2!Mfa!Used, Reuse!Used, P2!Mfa!Begin, Reuse!Begin, P2!Mfa!Matches, Reuse!Matches,
     P2!Mfa!Consume, Reuse!Consume, P2!Mfa!NewRequest, Reuse!NewRequest, P2!Mfa!NothingPending,
     Reuse!NothingPending
<1>4. P2!Mfa!FactorUsedOnce <=> Reuse!FactorUsedOnce
  BY Zenon DEF P2!Mfa!FactorUsedOnce, Reuse!FactorUsedOnce, P2!Mfa!Factors, Reuse!Factors,
     P2!Mfa!Secrets, Reuse!Secrets
<1>5. P2!Mfa!mfaVars = Reuse!mfaVars
  BY Zenon DEF P2!Mfa!mfaVars, Reuse!mfaVars
<1> QED BY <1>1, <1>2, <1>3, <1>4, <1>5

LEMMA ReuseRuns == MCSpec => P2!Mfa!Spec
<1>1. MCInit => P2!Mfa!Init
  BY ReuseSame DEF MCInit
<1>2. [MCNext]_mcVars => [P2!Mfa!Next]_(P2!Mfa!mfaVars)
  <2>1. UNCHANGED reuseVars => UNCHANGED P2!Mfa!mfaVars
    BY DEF reuseVars, P2!Mfa!mfaVars
  <2>2. [MCNext]_mcVars => Reuse!Next \/ UNCHANGED reuseVars
    BY DEF MCNext, mcVars
  <2> QED BY <2>1, <2>2, ReuseSame
<1> QED BY <1>1, <1>2, PTL DEF MCSpec, P2!Mfa!Spec

\* Second factors in the composition: a live session is marked as verified only by
\* a factor of the secret that protects the account now or because it was issued
\* under the exemption BETA_DEMO, one of several concurrent enrolments takes
\* effect, and a factor is used once.
THEOREM SecondFactorsAreSafe == MCSpec => []MfaSafe
<1>1. P1!Mfa!MfaAssumption /\ P2!Mfa!MfaAssumption
  BY AccessAssumption, MfaSame, ReuseSame
<1>2. P1!Mfa!Spec => []P1!Mfa!TypeOK
  BY <1>1, P1!MfaTypeCorrect
<1>3. P1!Mfa!Spec => []P1!Mfa!LiveMarkerIsEarned
  BY <1>1, P1!MarkersAreEarned
<1>4. P1!Mfa!Spec => []P1!Mfa!EnrolmentIsSingle
  BY <1>1, P1!EnrolmentsAreSingle
<1>5. P2!Mfa!Spec => []P2!Mfa!FactorUsedOnce
  BY <1>1, P2!FactorsAreUsedOnce
<1>6. P1!Mfa!TypeOK /\ P1!Mfa!LiveMarkerIsEarned /\ P1!Mfa!EnrolmentIsSingle /\ P2!Mfa!FactorUsedOnce
         => MfaSafe
  BY MfaSame, ReuseSame DEF MfaSafe
<1> QED
  BY <1>2, <1>3, <1>4, <1>5, <1>6, MfaRuns, ReuseRuns, PTL

\* The administration of the proofs is the one of the composition.
LEMMA LadderSame ==
    /\ P1!Ladder!AccessAssumption <=> Ladder!AccessAssumption
    /\ P1!Ladder!Init <=> Ladder!Init
    /\ P1!Ladder!Next <=> Ladder!Next
    /\ P1!Ladder!TypeOK <=> Ladder!TypeOK
    /\ P1!Ladder!DualSourceAgrees <=> Ladder!DualSourceAgrees
    /\ P1!Ladder!AssignedRolesLive <=> Ladder!AssignedRolesLive
    /\ P1!Ladder!vars = Ladder!vars
<1>1. P1!Ladder!AccessAssumption <=> Ladder!AccessAssumption
  BY Zenon DEF P1!Ladder!AccessAssumption, Ladder!AccessAssumption, P1!Ladder!Ranks,
     Ladder!Ranks, P1!Ladder!Permissions, Ladder!Permissions
<1>2. P1!Ladder!Init <=> Ladder!Init
  BY Zenon DEF P1!Ladder!Init, Ladder!Init
<1>3. P1!Ladder!Next <=> Ladder!Next
  BY Zenon DEF P1!Ladder!Next, Ladder!Next, P1!Ladder!Login, Ladder!Login,
     P1!Ladder!SessionEnds, Ladder!SessionEnds, P1!Ladder!Permissions, Ladder!Permissions,
     P1!Ladder!Begin, Ladder!Begin, P1!Ladder!Refused, Ladder!Refused, P1!Ladder!CreateRole,
     Ladder!CreateRole, P1!Ladder!UpdateRole, Ladder!UpdateRole, P1!Ladder!DeleteRole,
     Ladder!DeleteRole, P1!Ladder!ReplaceUserRoles, Ladder!ReplaceUserRoles, P1!Ladder!Ranks,
     Ladder!Ranks, P1!Ladder!ReplaceAccess, Ladder!ReplaceAccess, P1!Ladder!ReplaceSystemRole,
     Ladder!ReplaceSystemRole, P1!Ladder!Invite, Ladder!Invite, P1!Ladder!SetSuspended,
     Ladder!SetSuspended, P1!Ladder!Deactivate, Ladder!Deactivate, P1!Ladder!AdminSuspend,
     Ladder!AdminSuspend, P1!Ladder!AdminActivate, Ladder!AdminActivate, P1!Ladder!LockUser,
     Ladder!LockUser, P1!Ladder!UnlockUser, Ladder!UnlockUser, P1!Ladder!Entitled,
     Ladder!Entitled, P1!Ladder!Finish, Ladder!Finish, P1!Ladder!Authorized, Ladder!Authorized,
     P1!Ladder!MayGrant, Ladder!MayGrant, P1!Ladder!Exists, Ladder!Exists,
     P1!Ladder!IsSystemAdmin, Ladder!IsSystemAdmin, P1!Ladder!Outranks, Ladder!Outranks,
     P1!Ladder!Rank, Ladder!Rank, P1!Ladder!Reconciled, Ladder!Reconciled,
     P1!Ladder!MayDelegate, Ladder!MayDelegate, P1!Ladder!SetRoles, Ladder!SetRoles,
     P1!Ladder!RevokeIfChanged, Ladder!RevokeIfChanged, P1!Ladder!MayAdminister,
     Ladder!MayAdminister, P1!Ladder!MayAdministerPlatform, Ladder!MayAdministerPlatform,
     P1!Ladder!RevokeSessions, Ladder!RevokeSessions, P1!Ladder!Held, Ladder!Held,
     P1!Ladder!Protected, Ladder!Protected, P1!Ladder!LiveRole, Ladder!LiveRole,
     P1!Ladder!PermissionsOf, Ladder!PermissionsOf, P1!Ladder!RolePermissions,
     Ladder!RolePermissions, P1!Ladder!SystemPermissions, Ladder!SystemPermissions
<1>4. P1!Ladder!TypeOK <=> Ladder!TypeOK
  BY Zenon DEF P1!Ladder!TypeOK, Ladder!TypeOK, P1!Ladder!Ranks, Ladder!Ranks,
     P1!Ladder!Permissions, Ladder!Permissions
<1>5. P1!Ladder!DualSourceAgrees <=> Ladder!DualSourceAgrees
  BY Zenon DEF P1!Ladder!DualSourceAgrees, Ladder!DualSourceAgrees, P1!Ladder!Exists,
     Ladder!Exists, P1!Ladder!Reconciled, Ladder!Reconciled, P1!Ladder!Ranks, Ladder!Ranks,
     P1!Ladder!Rank, Ladder!Rank
<1>6. P1!Ladder!AssignedRolesLive <=> Ladder!AssignedRolesLive
  BY Zenon DEF P1!Ladder!AssignedRolesLive, Ladder!AssignedRolesLive, P1!Ladder!LiveRole,
     Ladder!LiveRole, P1!Ladder!Ranks, Ladder!Ranks
<1>7. P1!Ladder!vars = Ladder!vars
  BY Zenon DEF P1!Ladder!vars, Ladder!vars
<1> QED BY <1>1, <1>2, <1>3, <1>4, <1>5, <1>6, <1>7

LEMMA LadderRuns == MCSpec => P1!Ladder!Spec
<1>1. MCInit => P1!Ladder!Init
  BY LadderSame DEF MCInit
<1>2. [MCNext]_mcVars => [P1!Ladder!Next]_(P1!Ladder!vars)
  <2>1. UNCHANGED ladderVars => UNCHANGED P1!Ladder!vars
    BY DEF ladderVars, P1!Ladder!vars
  <2>2. [MCNext]_mcVars => Ladder!Next \/ UNCHANGED ladderVars
    BY DEF MCNext, mcVars
  <2> QED BY <2>1, <2>2, LadderSame
<1> QED BY <1>1, <1>2, PTL DEF MCSpec, P1!Ladder!Spec

\* The administration of the proofs is the one of the composition.
LEMMA RaceSame ==
    /\ P4!Ladder!AccessAssumption <=> Race!AccessAssumption
    /\ P4!Ladder!Init <=> Race!Init
    /\ P4!Ladder!Next <=> Race!Next
    /\ P4!Ladder!TypeOK <=> Race!TypeOK
    /\ P4!Ladder!DualSourceAgrees <=> Race!DualSourceAgrees
    /\ P4!Ladder!SystemAdminRemains <=> Race!SystemAdminRemains
    /\ P4!Ladder!AdminIsHired <=> Race!AdminIsHired
    /\ P4!Ladder!vars = Race!vars
<1>1. P4!Ladder!AccessAssumption <=> Race!AccessAssumption
  BY Zenon DEF P4!Ladder!AccessAssumption, Race!AccessAssumption, P4!Ladder!Ranks, Race!Ranks,
     P4!Ladder!Permissions, Race!Permissions
<1>2. P4!Ladder!Init <=> Race!Init
  BY Zenon DEF P4!Ladder!Init, Race!Init
<1>3. P4!Ladder!Next <=> Race!Next
  BY Zenon DEF P4!Ladder!Next, Race!Next, P4!Ladder!Login, Race!Login, P4!Ladder!SessionEnds,
     Race!SessionEnds, P4!Ladder!Permissions, Race!Permissions, P4!Ladder!Begin, Race!Begin,
     P4!Ladder!Refused, Race!Refused, P4!Ladder!CreateRole, Race!CreateRole,
     P4!Ladder!UpdateRole, Race!UpdateRole, P4!Ladder!DeleteRole, Race!DeleteRole,
     P4!Ladder!ReplaceUserRoles, Race!ReplaceUserRoles, P4!Ladder!Ranks, Race!Ranks,
     P4!Ladder!ReplaceAccess, Race!ReplaceAccess, P4!Ladder!ReplaceSystemRole,
     Race!ReplaceSystemRole, P4!Ladder!Invite, Race!Invite, P4!Ladder!SetSuspended,
     Race!SetSuspended, P4!Ladder!Deactivate, Race!Deactivate, P4!Ladder!AdminSuspend,
     Race!AdminSuspend, P4!Ladder!AdminActivate, Race!AdminActivate, P4!Ladder!LockUser,
     Race!LockUser, P4!Ladder!UnlockUser, Race!UnlockUser, P4!Ladder!Entitled, Race!Entitled,
     P4!Ladder!Finish, Race!Finish, P4!Ladder!Authorized, Race!Authorized, P4!Ladder!MayGrant,
     Race!MayGrant, P4!Ladder!Exists, Race!Exists, P4!Ladder!IsSystemAdmin, Race!IsSystemAdmin,
     P4!Ladder!Outranks, Race!Outranks, P4!Ladder!Rank, Race!Rank, P4!Ladder!Reconciled,
     Race!Reconciled, P4!Ladder!MayDelegate, Race!MayDelegate, P4!Ladder!SetRoles,
     Race!SetRoles, P4!Ladder!RevokeIfChanged, Race!RevokeIfChanged, P4!Ladder!MayAdminister,
     Race!MayAdminister, P4!Ladder!MayAdministerPlatform, Race!MayAdministerPlatform,
     P4!Ladder!RevokeSessions, Race!RevokeSessions, P4!Ladder!Held, Race!Held,
     P4!Ladder!Protected, Race!Protected, P4!Ladder!LiveRole, Race!LiveRole,
     P4!Ladder!PermissionsOf, Race!PermissionsOf, P4!Ladder!RolePermissions,
     Race!RolePermissions, P4!Ladder!SystemPermissions, Race!SystemPermissions
<1>4. P4!Ladder!TypeOK <=> Race!TypeOK
  BY Zenon DEF P4!Ladder!TypeOK, Race!TypeOK, P4!Ladder!Ranks, Race!Ranks,
     P4!Ladder!Permissions, Race!Permissions
<1>5. P4!Ladder!DualSourceAgrees <=> Race!DualSourceAgrees
  BY Zenon DEF P4!Ladder!DualSourceAgrees, Race!DualSourceAgrees, P4!Ladder!Exists, Race!Exists,
     P4!Ladder!Reconciled, Race!Reconciled, P4!Ladder!Ranks, Race!Ranks, P4!Ladder!Rank,
     Race!Rank
<1>6. P4!Ladder!SystemAdminRemains <=> Race!SystemAdminRemains
  BY Zenon DEF P4!Ladder!SystemAdminRemains, Race!SystemAdminRemains, P4!Ladder!IsSystemAdmin,
     Race!IsSystemAdmin
<1>7. P4!Ladder!AdminIsHired <=> Race!AdminIsHired
  BY Zenon DEF P4!Ladder!AdminIsHired, Race!AdminIsHired
<1>8. P4!Ladder!vars = Race!vars
  BY Zenon DEF P4!Ladder!vars, Race!vars
<1> QED BY <1>1, <1>2, <1>3, <1>4, <1>5, <1>6, <1>7, <1>8

LEMMA RaceRuns == MCSpec => P4!Ladder!Spec
<1>1. MCInit => P4!Ladder!Init
  BY RaceSame DEF MCInit
<1>2. [MCNext]_mcVars => [P4!Ladder!Next]_(P4!Ladder!vars)
  <2>1. UNCHANGED raceVars => UNCHANGED P4!Ladder!vars
    BY DEF raceVars, P4!Ladder!vars
  <2>2. [MCNext]_mcVars => Race!Next \/ UNCHANGED raceVars
    BY DEF MCNext, mcVars
  <2> QED BY <2>1, <2>2, RaceSame
<1> QED BY <1>1, <1>2, PTL DEF MCSpec, P4!Ladder!Spec

\* Roles in the composition: the role column and the assignments agree, nobody
\* holds a deleted role, and some system administrator who can sign in remains,
\* also when administrators act on each other at the same time.
THEOREM RolesAreSafe == MCSpec => []RolesSafe
<1>1. P1!Ladder!AccessAssumption /\ P4!Ladder!AccessAssumption /\ P4!Ladder!AdminIsHired
  BY AccessAssumption, LadderSame, RaceSame
<1>2. P1!Ladder!Spec => []P1!Ladder!TypeOK
  BY <1>1, P1!RolesTypeCorrect
<1>3. P1!Ladder!Spec => []P1!Ladder!DualSourceAgrees
  BY <1>1, P1!SourcesAgree
<1>4. P1!Ladder!Spec => []P1!Ladder!AssignedRolesLive
  BY <1>1, P1!RolesStayLive
<1>5. P4!Ladder!Spec => []P4!Ladder!TypeOK
  BY <1>1, P4!RolesTypeCorrect
<1>6. P4!Ladder!Spec => []P4!Ladder!DualSourceAgrees
  BY <1>1, P4!SourcesAgree
<1>7. P4!Ladder!Spec => []P4!Ladder!SystemAdminRemains
  BY <1>1, P4!AdminRemains
<1>8. P1!Ladder!TypeOK /\ P1!Ladder!DualSourceAgrees /\ P1!Ladder!AssignedRolesLive /\
         P4!Ladder!TypeOK /\ P4!Ladder!DualSourceAgrees /\ P4!Ladder!SystemAdminRemains =>
         RolesSafe
  BY LadderSame, RaceSame DEF RolesSafe
<1> QED
  BY <1>2, <1>3, <1>4, <1>5, <1>6, <1>7, <1>8, LadderRuns, RaceRuns, PTL

\* Roles in the composition: permissions are only handed on by somebody who holds
\* them, and only a system administrator changes a system administrator.
THEOREM RolesStepsHold == MCSpec => RolesSteps
<1>1. P1!Ladder!AccessAssumption
  BY AccessAssumption, LadderSame
<1>2. P1!Ladder!Spec => P1!Ladder!GrantsComeFromHolders
  BY <1>1, P1!GrantsAreHeld
<1>3. P1!Ladder!GrantsComeFromHolders => Ladder!GrantsComeFromHolders
  <2>1. P1!Ladder!Granted <=> Ladder!Granted
    BY Zenon DEF P1!Ladder!Granted, Ladder!Granted, P1!Ladder!Held, Ladder!Held,
       P1!Ladder!Permissions, Ladder!Permissions, P1!Ladder!FinishedBy, Ladder!FinishedBy,
       P1!Ladder!IsSystemAdmin, Ladder!IsSystemAdmin, P1!Ladder!Protected, Ladder!Protected,
       P1!Ladder!PermissionsOf, Ladder!PermissionsOf, P1!Ladder!Entitled, Ladder!Entitled,
       P1!Ladder!RolePermissions, Ladder!RolePermissions, P1!Ladder!LiveRole, Ladder!LiveRole,
       P1!Ladder!Ranks, Ladder!Ranks, P1!Ladder!SystemPermissions, Ladder!SystemPermissions
  <2>2. [P1!Ladder!Granted]_(P1!Ladder!vars) => [Ladder!Granted]_(Ladder!vars)
    BY <2>1 DEF P1!Ladder!vars, Ladder!vars
  <2> QED BY <2>2, PTL DEF P1!Ladder!GrantsComeFromHolders, Ladder!GrantsComeFromHolders
<1>4. P1!Ladder!Spec => P1!Ladder!SystemAdminsAreProtected
  BY <1>1, P1!AdminsAreProtected
<1>5. P1!Ladder!SystemAdminsAreProtected => Ladder!SystemAdminsAreProtected
  <2>1. P1!Ladder!Shielded <=> Ladder!Shielded
    BY Zenon DEF P1!Ladder!Shielded, Ladder!Shielded, P1!Ladder!IsSystemAdmin,
       Ladder!IsSystemAdmin, P1!Ladder!Exists, Ladder!Exists, P1!Ladder!Permissions,
       Ladder!Permissions, P1!Ladder!FinishedBy, Ladder!FinishedBy, P1!Ladder!Entitled,
       Ladder!Entitled, P1!Ladder!Held, Ladder!Held, P1!Ladder!PermissionsOf,
       Ladder!PermissionsOf, P1!Ladder!RolePermissions, Ladder!RolePermissions,
       P1!Ladder!LiveRole, Ladder!LiveRole, P1!Ladder!Ranks, Ladder!Ranks,
       P1!Ladder!SystemPermissions, Ladder!SystemPermissions
  <2>2. [P1!Ladder!Shielded]_(P1!Ladder!vars) => [Ladder!Shielded]_(Ladder!vars)
    BY <2>1 DEF P1!Ladder!vars, Ladder!vars
  <2> QED BY <2>2, PTL DEF P1!Ladder!SystemAdminsAreProtected, Ladder!SystemAdminsAreProtected
<1> QED
  BY <1>2, <1>3, <1>4, <1>5, LadderRuns, PTL DEF RolesSteps

\* The logins of the proofs is the one of the composition.
LEMMA LoginSame ==
    /\ P1!Login!LoginAssumption <=> Login!LoginAssumption
    /\ P1!Login!Init <=> Login!Init
    /\ P1!Login!Next <=> Login!Next
    /\ P1!Login!TypeOK <=> Login!TypeOK
    /\ P1!Login!LiveSessionIsEarned <=> Login!LiveSessionIsEarned
    /\ P1!Login!GuessesAreMetered <=> Login!GuessesAreMetered
    /\ P1!Login!SessionCap <=> Login!SessionCap
    /\ P1!Login!loginVars = Login!loginVars
<1>1. P1!Login!LoginAssumption <=> Login!LoginAssumption
  BY Zenon DEF P1!Login!LoginAssumption, Login!LoginAssumption
<1>2. P1!Login!Init <=> Login!Init
  BY Zenon DEF P1!Login!Init, Login!Init, P1!Login!Counters, Login!Counters, P1!Login!Methods,
     Login!Methods, P1!Login!NoSession, Login!NoSession, P1!Login!NewRequest, Login!NewRequest
<1>3. P1!Login!Next <=> Login!Next
  BY Zenon DEF P1!Login!Next, Login!Next, P1!Login!Login, Login!Login, P1!Login!Administration,
     Login!Administration, P1!Login!EnterPassword, Login!EnterPassword, P1!Login!EnterPin,
     Login!EnterPin, P1!Login!EnterEmail, Login!EnterEmail, P1!Login!PasswordAttempt,
     Login!PasswordAttempt, P1!Login!ReadPin, Login!ReadPin, P1!Login!PinAttempt,
     Login!PinAttempt, P1!Login!Admit, Login!Admit, P1!Login!Issue, Login!Issue,
     P1!Login!ResetPassword, Login!ResetPassword, P1!Login!RotateOwnPin, Login!RotateOwnPin,
     P1!Login!ResetPinAsAdmin, Login!ResetPinAsAdmin, P1!Login!LockUser, Login!LockUser,
     P1!Login!UnlockUser, Login!UnlockUser, P1!Login!SuspendUser, Login!SuspendUser,
     P1!Login!ActivateUser, Login!ActivateUser, P1!Login!ChangeEmail, Login!ChangeEmail,
     P1!Login!Methods, Login!Methods, P1!Login!ReplaceRoles, Login!ReplaceRoles,
     P1!Login!SuspendTenant, Login!SuspendTenant, P1!Login!ChangeTenant, Login!ChangeTenant,
     P1!Login!Counters, Login!Counters, P1!Login!LockEnds, Login!LockEnds, P1!Login!EndSession,
     Login!EndSession, P1!Login!MayBegin, Login!MayBegin, P1!Login!Refuse, Login!Refuse,
     P1!Login!history, Login!history, P1!Login!Judge, Login!Judge, P1!Login!ProofHolds,
     Login!ProofHolds, P1!Login!Kept, Login!Kept, P1!Login!NoSession, Login!NoSession,
     P1!Login!Cleared, Login!Cleared, P1!Login!Forget, Login!Forget, P1!Login!RevokeAll,
     Login!RevokeAll, P1!Login!Change, Login!Change, P1!Login!Open, Login!Open, P1!Login!Failed,
     Login!Failed, P1!Login!Newer, Login!Newer, P1!Login!Revoked, Login!Revoked, P1!Login!Live,
     Login!Live, P1!Login!Cardinality, Login!Cardinality
<1>4. P1!Login!TypeOK <=> Login!TypeOK
  BY Zenon DEF P1!Login!TypeOK, Login!TypeOK, P1!Login!User, Login!User, P1!Login!Session,
     Login!Session, P1!Login!Request, Login!Request, P1!Login!Counters, Login!Counters,
     P1!Login!Methods, Login!Methods, P1!Login!Secrets, Login!Secrets
<1>5. P1!Login!LiveSessionIsEarned <=> Login!LiveSessionIsEarned
  BY Zenon DEF P1!Login!LiveSessionIsEarned, Login!LiveSessionIsEarned, P1!Login!Open,
     Login!Open, P1!Login!Live, Login!Live
<1>6. P1!Login!GuessesAreMetered <=> Login!GuessesAreMetered
  BY Zenon DEF P1!Login!GuessesAreMetered, Login!GuessesAreMetered, P1!Login!Counters,
     Login!Counters
<1>7. P1!Login!SessionCap <=> Login!SessionCap
  BY Zenon DEF P1!Login!SessionCap, Login!SessionCap, P1!Login!Open, Login!Open, P1!Login!Live,
     Login!Live, P1!Login!Cardinality, Login!Cardinality
<1>8. P1!Login!loginVars = Login!loginVars
  BY Zenon DEF P1!Login!loginVars, Login!loginVars
<1> QED BY <1>1, <1>2, <1>3, <1>4, <1>5, <1>6, <1>7, <1>8

LEMMA LoginRuns == MCSpec => P1!Login!Spec
<1>1. MCInit => P1!Login!Init
  BY LoginSame DEF MCInit
<1>2. [MCNext]_mcVars => [P1!Login!Next]_(P1!Login!loginVars)
  <2>1. UNCHANGED loginVars => UNCHANGED P1!Login!loginVars
    BY DEF loginVars, P1!Login!loginVars
  <2>2. [MCNext]_mcVars => Login!Next \/ UNCHANGED loginVars
    BY DEF MCNext, mcVars
  <2> QED BY <2>1, <2>2, LoginSame
<1> QED BY <1>1, <1>2, PTL DEF MCSpec, P1!Login!Spec

\* The logins of the proofs is the one of the composition.
LEMMA CrowdSame ==
    /\ P3!Login!LoginAssumption <=> Crowd!LoginAssumption
    /\ P3!Login!Init <=> Crowd!Init
    /\ P3!Login!Next <=> Crowd!Next
    /\ P3!Login!GuessesAreMetered <=> Crowd!GuessesAreMetered
    /\ P3!Login!SessionCap <=> Crowd!SessionCap
    /\ P3!Login!loginVars = Crowd!loginVars
<1>1. P3!Login!LoginAssumption <=> Crowd!LoginAssumption
  BY Zenon DEF P3!Login!LoginAssumption, Crowd!LoginAssumption
<1>2. P3!Login!Init <=> Crowd!Init
  BY Zenon DEF P3!Login!Init, Crowd!Init, P3!Login!Counters, Crowd!Counters, P3!Login!Methods,
     Crowd!Methods, P3!Login!NoSession, Crowd!NoSession, P3!Login!NewRequest, Crowd!NewRequest
<1>3. P3!Login!Next <=> Crowd!Next
  BY Zenon DEF P3!Login!Next, Crowd!Next, P3!Login!Login, Crowd!Login, P3!Login!Administration,
     Crowd!Administration, P3!Login!EnterPassword, Crowd!EnterPassword, P3!Login!EnterPin,
     Crowd!EnterPin, P3!Login!EnterEmail, Crowd!EnterEmail, P3!Login!PasswordAttempt,
     Crowd!PasswordAttempt, P3!Login!ReadPin, Crowd!ReadPin, P3!Login!PinAttempt,
     Crowd!PinAttempt, P3!Login!Admit, Crowd!Admit, P3!Login!Issue, Crowd!Issue,
     P3!Login!ResetPassword, Crowd!ResetPassword, P3!Login!RotateOwnPin, Crowd!RotateOwnPin,
     P3!Login!ResetPinAsAdmin, Crowd!ResetPinAsAdmin, P3!Login!LockUser, Crowd!LockUser,
     P3!Login!UnlockUser, Crowd!UnlockUser, P3!Login!SuspendUser, Crowd!SuspendUser,
     P3!Login!ActivateUser, Crowd!ActivateUser, P3!Login!ChangeEmail, Crowd!ChangeEmail,
     P3!Login!Methods, Crowd!Methods, P3!Login!ReplaceRoles, Crowd!ReplaceRoles,
     P3!Login!SuspendTenant, Crowd!SuspendTenant, P3!Login!ChangeTenant, Crowd!ChangeTenant,
     P3!Login!Counters, Crowd!Counters, P3!Login!LockEnds, Crowd!LockEnds, P3!Login!EndSession,
     Crowd!EndSession, P3!Login!MayBegin, Crowd!MayBegin, P3!Login!Refuse, Crowd!Refuse,
     P3!Login!history, Crowd!history, P3!Login!Judge, Crowd!Judge, P3!Login!ProofHolds,
     Crowd!ProofHolds, P3!Login!Kept, Crowd!Kept, P3!Login!NoSession, Crowd!NoSession,
     P3!Login!Cleared, Crowd!Cleared, P3!Login!Forget, Crowd!Forget, P3!Login!RevokeAll,
     Crowd!RevokeAll, P3!Login!Change, Crowd!Change, P3!Login!Open, Crowd!Open, P3!Login!Failed,
     Crowd!Failed, P3!Login!Newer, Crowd!Newer, P3!Login!Revoked, Crowd!Revoked, P3!Login!Live,
     Crowd!Live, P3!Login!Cardinality, Crowd!Cardinality
<1>4. P3!Login!GuessesAreMetered <=> Crowd!GuessesAreMetered
  BY Zenon DEF P3!Login!GuessesAreMetered, Crowd!GuessesAreMetered, P3!Login!Counters,
     Crowd!Counters
<1>5. P3!Login!SessionCap <=> Crowd!SessionCap
  BY Zenon DEF P3!Login!SessionCap, Crowd!SessionCap, P3!Login!Open, Crowd!Open, P3!Login!Live,
     Crowd!Live, P3!Login!Cardinality, Crowd!Cardinality
<1>6. P3!Login!loginVars = Crowd!loginVars
  BY Zenon DEF P3!Login!loginVars, Crowd!loginVars
<1> QED BY <1>1, <1>2, <1>3, <1>4, <1>5, <1>6

LEMMA CrowdRuns == MCSpec => P3!Login!Spec
<1>1. MCInit => P3!Login!Init
  BY CrowdSame DEF MCInit
<1>2. [MCNext]_mcVars => [P3!Login!Next]_(P3!Login!loginVars)
  <2>1. UNCHANGED crowdVars => UNCHANGED P3!Login!loginVars
    BY DEF crowdVars, P3!Login!loginVars
  <2>2. [MCNext]_mcVars => Crowd!Next \/ UNCHANGED crowdVars
    BY DEF MCNext, mcVars
  <2> QED BY <2>1, <2>2, CrowdSame
<1> QED BY <1>1, <1>2, PTL DEF MCSpec, P3!Login!Spec

\* Logins in the composition: every live session was earned by a proof the account
\* accepts now, wrong guesses are metered however many are made at once, and an
\* account has at most its number of sessions.
THEOREM LoginsAreSafe == MCSpec => []LoginSafe
<1>1. P1!Login!LoginAssumption /\ P3!Login!LoginAssumption
  BY AccessAssumption, LoginSame, CrowdSame
<1>2. P1!Login!Spec => []P1!Login!TypeOK
  BY <1>1, P1!LoginTypeCorrect
<1>3. P1!Login!Spec => []P1!Login!LiveSessionIsEarned
  BY <1>1, P1!SessionsAreEarned
<1>4. P1!Login!Spec => []P1!Login!GuessesAreMetered
  BY <1>1, P1!GuessesMetered
<1>5. P1!Login!Spec => []P1!Login!SessionCap
  BY <1>1, P1!SessionsAreCapped
<1>6. P3!Login!Spec => []P3!Login!GuessesAreMetered
  BY <1>1, P3!GuessesMetered
<1>7. P3!Login!Spec => []P3!Login!SessionCap
  BY <1>1, P3!SessionsAreCapped
<1>8. P1!Login!TypeOK /\ P1!Login!LiveSessionIsEarned /\ P1!Login!GuessesAreMetered /\
         P1!Login!SessionCap /\ P3!Login!GuessesAreMetered /\ P3!Login!SessionCap => LoginSafe
  BY LoginSame, CrowdSame DEF LoginSafe
<1> QED
  BY <1>2, <1>3, <1>4, <1>5, <1>6, <1>7, <1>8, LoginRuns, CrowdRuns, PTL

LEMMA RotationRuns == MCSpec => Spec
<1>1. MCInit => Init BY DEF MCInit
<1>2. [MCNext]_mcVars => [Next]_rotationVars BY DEF MCNext, mcVars, rotationVars
<1> QED BY <1>1, <1>2, PTL DEF MCSpec, Spec

\* Signing in and staying so, in the composition: eviction goes by age, a guess is
\* charged to the PIN it was compared with, a locked PIN signs nobody in, the
\* answer "verified" is earned by a factor or an exemption, a replayed credential ends its family and a guessed
\* one ends nothing.
THEOREM SignInStepsHold == MCSpec => SignInSteps
<1>1. P3!Login!LoginAssumption /\ P1!Login!LoginAssumption /\ P1!Mfa!MfaAssumption
  BY AccessAssumption, CrowdSame, LoginSame, MfaSame
<1>2. P3!Login!Spec => P3!Login!OldestIsEvicted
  BY <1>1, P3!EvictionIsByAge
<1>3. P3!Login!OldestIsEvicted => Crowd!OldestIsEvicted
  <2>1. P3!Login!EvictsOldest <=> Crowd!EvictsOldest
    BY Zenon DEF P3!Login!EvictsOldest, Crowd!EvictsOldest, P3!Login!Open, Crowd!Open,
       P3!Login!Live, Crowd!Live
  <2>2. [P3!Login!EvictsOldest]_(P3!Login!loginVars) => [Crowd!EvictsOldest]_(Crowd!loginVars)
    BY <2>1 DEF P3!Login!loginVars, Crowd!loginVars
  <2> QED BY <2>2, PTL DEF P3!Login!OldestIsEvicted, Crowd!OldestIsEvicted
<1>4. P1!Login!Spec => P1!Login!StaleGuessIsFree
  BY <1>1, P1!GuessIsChargedToItsPin
<1>5. P1!Login!StaleGuessIsFree => Login!StaleGuessIsFree
  <2>1. P1!Login!ChargesOwnPin <=> Login!ChargesOwnPin
    BY Zenon DEF P1!Login!ChargesOwnPin, Login!ChargesOwnPin
  <2>2. [P1!Login!ChargesOwnPin]_(P1!Login!loginVars) => [Login!ChargesOwnPin]_(Login!loginVars)
    BY <2>1 DEF P1!Login!loginVars, Login!loginVars
  <2> QED BY <2>2, PTL DEF P1!Login!StaleGuessIsFree, Login!StaleGuessIsFree
<1>6. P1!Login!Spec => P1!Login!LockedPinSignsNobodyIn
  BY <1>1, P1!LockedPinsSignNobodyIn
<1>7. P1!Login!LockedPinSignsNobodyIn => Login!LockedPinSignsNobodyIn
  <2>1. P1!Login!PinIsUnlocked <=> Login!PinIsUnlocked
    BY Zenon DEF P1!Login!PinIsUnlocked, Login!PinIsUnlocked
  <2>2. [P1!Login!PinIsUnlocked]_(P1!Login!loginVars) => [Login!PinIsUnlocked]_(Login!loginVars)
    BY <2>1 DEF P1!Login!loginVars, Login!loginVars
  <2> QED BY <2>2, PTL DEF P1!Login!LockedPinSignsNobodyIn, Login!LockedPinSignsNobodyIn
<1>8. P1!Mfa!Spec => P1!Mfa!VerifiedAnswerIsEarned
  BY <1>1, P1!VerifiedIsEarned
<1>9. P1!Mfa!VerifiedAnswerIsEarned => Mfa!VerifiedAnswerIsEarned
  <2>1. P1!Mfa!AnswersEarned <=> Mfa!AnswersEarned
    BY Zenon DEF P1!Mfa!AnswersEarned, Mfa!AnswersEarned, P1!Mfa!Live, Mfa!Live,
       P1!Mfa!NoSecret, Mfa!NoSecret
  <2>2. [P1!Mfa!AnswersEarned]_(P1!Mfa!mfaVars) => [Mfa!AnswersEarned]_(Mfa!mfaVars)
    BY <2>1 DEF P1!Mfa!mfaVars, Mfa!mfaVars
  <2> QED BY <2>2, PTL DEF P1!Mfa!VerifiedAnswerIsEarned, Mfa!VerifiedAnswerIsEarned
<1> QED
  BY <1>2, <1>3, <1>4, <1>5, <1>6, <1>7, <1>8, <1>9, CrowdRuns, LoginRuns, MfaRuns,
     RotationRuns, ReplayIsNoticed, GuessIsHarmless, PTL DEF SignInSteps
=============================================================================
