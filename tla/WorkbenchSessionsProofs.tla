----------------------- MODULE WorkbenchSessionsProofs -----------------------
(***************************************************************************)
(* The list of sessions, for any number of sessions, folders and requests, *)
(* and for both hosts of the page.                                         *)
(***************************************************************************)
EXTENDS WorkbenchSessions, NaturalsInduction, WellFoundedInduction, TLAPS

\* loadSessions: the request it sends counts.
LEMMA LoadComes == ASSUME LoadSessions PROVE ListIsComing'
<1> DEFINE q == [current |-> TRUE, data |-> ListSessions(remote')]
<1>1. q.current /\ q \in lists'
  BY DEF LoadSessions
<1> QED
  BY <1>1 DEF ListIsComing

\* invalidateSessions: a page that waits has a timer.
LEMMA InvalidateComes ==
  ASSUME InvalidateSessions, list' = list \/ list'.status = "success"
  PROVE  ListIsComing'
  BY DEF InvalidateSessions, ListIsComing

\* A page that is mounted anew has one as well.
LEMMA MountComes == ASSUME MountAnew PROVE ListIsComing'
  BY DEF MountAnew, ListIsComing

\* What leaves the list and its requests alone.
LEMMA OthersCome ==
  ASSUME ListIsComing, UNCHANGED <<list, lists, timer>>
  PROVE  ListIsComing'
  BY DEF ListIsComing

LEMMA ListAnsweredComes ==
  ASSUME ListIsComing, NEW q \in lists, ListAnswered(q), UNCHANGED timer
  PROVE  ListIsComing'
<1>1. CASE q.current
  BY <1>1 DEF ListAnswered, Failed, ListIsComing
<1>2. CASE ~q.current
  <2>1. list' = list /\ lists' = lists \ {q}
    BY <1>2 DEF ListAnswered
  <2> QED
    BY <1>2, <2>1 DEF ListIsComing
<1> QED
  BY <1>1, <1>2

LEMMA MoveComes ==
  ASSUME ListIsComing, NEW s, MoveTo(s)
  PROVE  ListIsComing'
  BY MountComes, OthersCome DEF MoveTo

LEMMA CreateComes ==
  ASSUME ListIsComing, NEW c, CreateAnswered(c)
  PROVE  ListIsComing'
<1> PICK s \in Ids :
      \/ InScope(c) /\ MountAnew
      \/ InScope(c) /\ InvalidateSessions
           /\ list' = [status |-> "success",
                       data |-> {s} \cup (IF list.status = "success" THEN list.data ELSE {})]
      \/ UNCHANGED <<list, lists, timer>>
  BY DEF CreateAnswered
<1> QED
  BY MountComes, InvalidateComes, OthersCome

LEMMA ChangeComes ==
  ASSUME ListIsComing, NEW c, ChangeAnswered(c)
  PROVE  ListIsComing'
<1>1. \/ LoadSessions
      \/ InvalidateSessions /\ list' = list
      \/ UNCHANGED <<list, lists, timer>>
  BY DEF ChangeAnswered, ArchiveAnswered, RenameAnswered, PublishSummary
<1> QED
  BY <1>1, LoadComes, InvalidateComes, OthersCome

LEMMA DeleteComes ==
  ASSUME ListIsComing, NEW c, DeleteAnswered(c)
  PROVE  ListIsComing'
<1>1. \/ LoadSessions
      \/ MountAnew
      \/ InvalidateSessions /\ list' = [status |-> "success", data |-> Remaining(c)]
      \/ UNCHANGED <<list, lists, timer>>
  BY DEF DeleteAnswered, LeaveDeleted, RefreshAfterDelete, NavigateFromTheDead
<1> QED
  BY <1>1, LoadComes, MountComes, InvalidateComes, OthersCome

LEMMA StepComes == ListIsComing /\ [Next]_vars => ListIsComing'
<1> SUFFICES ASSUME ListIsComing, [Next]_vars
             PROVE  ListIsComing'
  OBVIOUS
<1>1. CASE ReloadSessions
  BY <1>1, LoadComes DEF ReloadSessions
<1>2. CASE SessionsAnswered
  BY <1>2, ListAnsweredComes DEF SessionsAnswered
<1>3. CASE Navigate \/ NavigateToFirst
  BY <1>3, MoveComes DEF Navigate, NavigateToFirst
<1>4. CASE OpenAgain \/ SelectFolder \/ CreateSession \/ ArchiveSession \/ RenameSession
           \/ DeleteSession
  BY <1>4, OthersCome
  DEF OpenAgain, SelectFolder, CreateSession, ArchiveSession, RenameSession, Change,
      DeleteSession, callVars
<1>5. ASSUME NEW q \in reads, SessionAnswered(q)
      PROVE  ListIsComing'
  BY <1>5, OthersCome DEF SessionAnswered
<1>6. ASSUME NEW c, CreateAnswered(c) \/ CreateFails(c)
      PROVE  ListIsComing'
  BY <1>6, CreateComes, OthersCome DEF CreateFails
<1>7. ASSUME NEW c, ChangeAnswered(c) \/ ChangeFails(c)
      PROVE  ListIsComing'
  BY <1>7, ChangeComes, OthersCome DEF ChangeFails
<1>8. ASSUME NEW c, DeleteAnswered(c) \/ DeleteFails(c)
      PROVE  ListIsComing'
  BY <1>8, DeleteComes, OthersCome DEF DeleteFails
<1>9. CASE UNCHANGED vars
  BY <1>9, OthersCome DEF vars, pageVars, callVars
<1> QED
  BY <1>1, <1>2, <1>3, <1>4, <1>5, <1>6, <1>7, <1>8, <1>9 DEF Next

\* loadSessions and invalidateSessions, in any order with any number of answers: a list that is
\* being loaded has a request whose answer will be shown, or a timer that will send one.
THEOREM ListsCome == Spec => []ListIsComing
<1>1. Init => ListIsComing
  <2> DEFINE q == [current |-> TRUE, data |-> ListSessions(remote)]
  <2>1. Init => q \in lists
    BY DEF Init
  <2>2. q.current
    OBVIOUS
  <2> QED
    BY <2>1, <2>2 DEF ListIsComing
<1> QED
  BY <1>1, StepComes, PTL DEF Spec

-----------------------------------------------------------------------------
(* Sessions that are deleted.  What the page on the screen shows, has      *)
(* asked for last, or will show when its deletion is answered has none of  *)
(* the sessions it knows to be deleted.  It makes one deletion at a time,  *)
(* so none of the sessions it saw then is taken by another meanwhile; the  *)
(* deletions of pages that are gone show nothing.                          *)

\* Sessions without those that are known to be deleted.
Without(sessions, gone) == sessions \cap gone = {}

ListFits(l, gone) == l.status = "success" => Without(l.data, gone)

RequestsFit(requests, gone) ==
  \A q \in requests :
    DOMAIN q = {"current", "data"} /\ (q.current => Without(q.data, gone))

DeletesFit(calls, busy, gone) ==
  /\ \A c \in calls :
       /\ DOMAIN c = {"session", "still", "here", "seen"} /\ (c.still => c.here)
       /\ c.here => Without(c.seen, gone) /\ busy = "loading"
  /\ \A c, d \in calls : c.here /\ d.here => c = d

\* What is known to be deleted is.
KnownFits(gone, at) == gone \cap Ids \subseteq Deleted(at)

SessionsInv ==
  /\ DOMAIN remote = Ids /\ KnownFits(known, remote)
  /\ ListFits(list, known) /\ RequestsFit(lists, known) /\ DeletesFit(deletes, deleting, known)

\* A request that is given up fits whatever has become of its sessions.
LEMMA OldFits ==
  ASSUME NEW requests, NEW gone, NEW now, RequestsFit(requests, gone)
  PROVE  RequestsFit(Old(requests), now)
  BY DEF RequestsFit, Old

LEMMA MovedFits ==
  ASSUME NEW calls, NEW busy, NEW gone, DeletesFit(calls, busy, gone)
  PROVE  DeletesFit(Moved(calls), busy, gone)
<1>1. ASSUME NEW c \in Moved(calls)
      PROVE  \E d \in calls :
               /\ c = [d EXCEPT !.still = FALSE, !.here = @ /\ ~Keyed]
               /\ DOMAIN c = {"session", "still", "here", "seen"} /\ c.seen = d.seen
               /\ ~c.still /\ (c.here => d.here)
  <2>1. PICK d \in calls : c = [d EXCEPT !.still = FALSE, !.here = @ /\ ~Keyed]
    BY DEF Moved
  <2>2. DOMAIN d = {"session", "still", "here", "seen"}
    BY DEF DeletesFit
  <2> QED
    BY <2>1, <2>2
<1>2. \A c \in Moved(calls) :
        /\ DOMAIN c = {"session", "still", "here", "seen"} /\ ~c.still
        /\ c.here => Without(c.seen, gone) /\ busy = "loading"
  BY <1>1 DEF DeletesFit
<1>3. \A c, d \in Moved(calls) : c.here /\ d.here => c = d
  BY <1>1 DEF DeletesFit
<1> QED
  BY <1>2, <1>3 DEF DeletesFit

\* Where pages are mounted anew, the calls of the page before this one show nothing.
LEMMA GoneFits ==
  ASSUME Keyed, NEW calls, NEW busy, NEW gone, DeletesFit(calls, busy, gone),
         NEW free, NEW now
  PROVE  DeletesFit(Moved(calls), free, now)
<1>1. ASSUME NEW c \in Moved(calls)
      PROVE  DOMAIN c = {"session", "still", "here", "seen"} /\ ~c.still /\ ~c.here
  <2>1. PICK d \in calls : c = [d EXCEPT !.still = FALSE, !.here = @ /\ ~Keyed]
    BY DEF Moved
  <2>2. DOMAIN d = {"session", "still", "here", "seen"}
    BY DEF DeletesFit
  <2> QED
    BY <2>1, <2>2
<1> QED
  BY <1>1 DEF DeletesFit

\* Fewer calls fit as well.
LEMMA FewerFit ==
  ASSUME NEW calls, NEW fewer \in SUBSET calls, NEW busy, NEW gone, DeletesFit(calls, busy, gone)
  PROVE  DeletesFit(fewer, busy, gone)
  BY DEF DeletesFit

\* The provider lists nothing that is deleted.
LEMMA LoadFits ==
  ASSUME SessionsInv, LoadSessions, KnownFits(known', remote')
  PROVE  ListFits(list', known') /\ RequestsFit(lists', known')
<1> DEFINE q == [current |-> TRUE, data |-> ListSessions(remote')]
<1>1. list' = Loading /\ lists' = Old(lists) \cup {q}
  BY DEF LoadSessions
<1>2. RequestsFit(Old(lists), known')
  BY OldFits DEF SessionsInv
<1>3. Without(q.data, known') /\ DOMAIN q = {"current", "data"}
  BY DEF Without, ListSessions, Deleted, KnownFits
<1> HIDE DEF q
<1> QED
  BY <1>1, <1>2, <1>3 DEF Loading, ListFits, RequestsFit

LEMMA InvalidateFits ==
  ASSUME SessionsInv, InvalidateSessions
  PROVE  RequestsFit(lists', known')
  BY OldFits DEF InvalidateSessions, SessionsInv

\* A page that is mounted anew has no list yet.
LEMMA MountFits ==
  ASSUME SessionsInv, MountAnew, DOMAIN remote' = Ids,
         NEW calls, calls \subseteq deletes, deletes' = Moved(calls)
  PROVE  SessionsInv'
<1>1. Keyed /\ list' = Loading /\ lists' = Old(lists) /\ known' = Deleted(remote')
  BY DEF MountAnew
<1>2. RequestsFit(lists', known')
  BY <1>1, OldFits DEF SessionsInv
<1>3. DeletesFit(calls, deleting, known)
  BY FewerFit DEF SessionsInv
<1>4. DeletesFit(deletes', deleting', known')
  BY <1>1, <1>3, GoneFits
<1> QED
  BY <1>1, <1>2, <1>4 DEF SessionsInv, ListFits, Loading, KnownFits

\* What leaves the list, the deletions and what the page knows alone, and brings nothing back.
LEMMA OthersFit ==
  ASSUME SessionsInv, UNCHANGED <<list, lists, deleting, deletes, known>>,
         DOMAIN remote' = Ids, Deleted(remote) \subseteq Deleted(remote')
  PROVE  SessionsInv'
  BY DEF SessionsInv, KnownFits

LEMMA AnswerFits ==
  ASSUME SessionsInv, SessionsAnswered
  PROVE  SessionsInv'
<1>1. PICK q \in lists : ListAnswered(q)
  BY DEF SessionsAnswered
<1>2. lists' = lists \ {q} /\ UNCHANGED <<deleting, deletes, remote, known>>
  BY <1>1 DEF SessionsAnswered, ListAnswered
<1>3. \/ list' = list \/ list' = Failed
      \/ q.current /\ list' = [status |-> "success", data |-> q.data]
  BY <1>1 DEF ListAnswered
<1>4. ListFits(list', known)
  BY <1>3 DEF SessionsInv, ListFits, RequestsFit, Failed
<1>5. RequestsFit(lists', known)
  BY <1>2 DEF SessionsInv, RequestsFit
<1> QED
  BY <1>2, <1>4, <1>5 DEF SessionsInv

LEMMA MoveFits ==
  ASSUME SessionsInv, NEW s, MoveTo(s)
  PROVE  SessionsInv'
<1>1. UNCHANGED remote /\ deletes' = Moved(deletes)
  BY DEF MoveTo
<1>2. CASE MountAnew
  BY <1>1, <1>2, MountFits DEF SessionsInv
<1>3. CASE UNCHANGED <<list, lists, deleting, known>>
  <2>1. DeletesFit(deletes', deleting, known)
    BY <1>1, MovedFits DEF SessionsInv
  <2> QED
    BY <1>1, <1>3, <2>1 DEF SessionsInv
<1> QED
  BY <1>2, <1>3 DEF MoveTo

\* A session that is created was not there before.
LEMMA CreatedFits ==
  ASSUME SessionsInv, NEW s \in Ids, Created(s)
  PROVE  /\ DOMAIN remote' = Ids /\ s \notin known
         /\ Deleted(remote) \subseteq Deleted(remote')
  BY DEF Created, SessionsInv, Deleted, KnownFits

LEMMA CreateFits ==
  ASSUME SessionsInv, NEW c, CreateAnswered(c)
  PROVE  SessionsInv'
<1>1. PICK s \in Ids :
        /\ Created(s)
        /\ \/ MountAnew /\ deletes' = Moved(deletes \ {})
           \/ /\ InvalidateSessions /\ deletes' = Moved(deletes)
              /\ list' = [status |-> "success",
                          data |-> {s} \cup (IF list.status = "success" THEN list.data ELSE {})]
              /\ UNCHANGED <<deleting, known>>
           \/ UNCHANGED <<list, lists, deleting, deletes, known>>
  <2>1. deletes = deletes \ {}
    OBVIOUS
  <2> QED
    BY <2>1 DEF CreateAnswered
<1>2. /\ DOMAIN remote' = Ids /\ s \notin known
      /\ Deleted(remote) \subseteq Deleted(remote')
  BY <1>1, CreatedFits
<1>3. CASE MountAnew /\ deletes' = Moved(deletes \ {})
  BY <1>2, <1>3, MountFits
<1>4. CASE UNCHANGED <<list, lists, deleting, deletes, known>>
  BY <1>2, <1>4, OthersFit
<1>5. CASE /\ InvalidateSessions /\ deletes' = Moved(deletes)
           /\ list' = [status |-> "success",
                       data |-> {s} \cup (IF list.status = "success" THEN list.data ELSE {})]
           /\ UNCHANGED <<deleting, known>>
  <2>1. Without(list'.data, known)
    BY <1>2, <1>5 DEF ListFits, Without, SessionsInv
  <2>2. RequestsFit(lists', known') /\ DeletesFit(deletes', deleting, known)
    BY <1>5, InvalidateFits, MovedFits DEF SessionsInv
  <2> QED
    BY <1>2, <1>5, <2>1, <2>2 DEF SessionsInv, ListFits, KnownFits
<1> QED
  BY <1>1, <1>3, <1>4, <1>5

LEMMA ChangedFits ==
  ASSUME SessionsInv, NEW c, Changed(c)
  PROVE  DOMAIN remote' = Ids /\ Deleted(remote) \subseteq Deleted(remote')
<1>1. remote' = [remote EXCEPT ![c.session] = After(c)] /\ remote[c.session] # "deleted"
  BY DEF Changed, Exists
<1> QED
  BY <1>1 DEF SessionsInv, Deleted

LEMMA ChangeFits ==
  ASSUME SessionsInv, NEW c, ChangeAnswered(c)
  PROVE  SessionsInv'
<1>1. /\ Changed(c) /\ UNCHANGED <<deleting, deletes, known>>
      /\ \/ LoadSessions
         \/ InvalidateSessions /\ list' = list
         \/ UNCHANGED <<list, lists>>
  BY DEF ChangeAnswered, ArchiveAnswered, RenameAnswered, PublishSummary
<1>2. DOMAIN remote' = Ids /\ Deleted(remote) \subseteq Deleted(remote')
  BY <1>1, ChangedFits
<1>3. KnownFits(known', remote')
  BY <1>1, <1>2 DEF SessionsInv, KnownFits
<1>4. ListFits(list', known') /\ RequestsFit(lists', known')
  <2>1. CASE LoadSessions
    BY <1>3, <2>1, LoadFits
  <2>2. CASE InvalidateSessions /\ list' = list
    BY <1>1, <2>2, InvalidateFits DEF SessionsInv
  <2>3. CASE UNCHANGED <<list, lists>>
    BY <1>1, <2>3 DEF SessionsInv
  <2> QED
    BY <1>1, <2>1, <2>2, <2>3
<1> QED
  BY <1>1, <1>2, <1>3, <1>4 DEF SessionsInv

\* The provider does what was asked, and the page is not told.
LEMMA FailsFit ==
  ASSUME SessionsInv, NEW c, CreateFails(c) \/ ChangeFails(c)
  PROVE  SessionsInv'
<1>1. UNCHANGED <<list, lists, deleting, deletes, known>>
      /\ (UNCHANGED remote \/ Changed(c) \/ \E s \in Ids : Created(s))
  BY DEF CreateFails, ChangeFails
<1>2. DOMAIN remote' = Ids /\ Deleted(remote) \subseteq Deleted(remote')
  BY <1>1, ChangedFits, CreatedFits DEF SessionsInv
<1> QED
  BY <1>1, <1>2, OthersFit

LEMMA DeleteSessionFits ==
  ASSUME SessionsInv, DeleteSession
  PROVE  SessionsInv'
<1> DEFINE seen == IF list.status = "success" THEN list.data ELSE {}
           c == [session |-> route, still |-> TRUE, here |-> TRUE, seen |-> seen]
<1>1. /\ deleting # "loading" /\ deleting' = "loading" /\ deletes' = deletes \cup {c}
      /\ UNCHANGED <<list, lists, remote, known>>
  BY DEF DeleteSession
<1>2. \A d \in deletes :
        ~d.here /\ ~d.still /\ DOMAIN d = {"session", "still", "here", "seen"}
  BY <1>1 DEF SessionsInv, DeletesFit
<1>3. Without(seen, known)
  BY DEF SessionsInv, ListFits, Without
<1>4. DOMAIN c = {"session", "still", "here", "seen"} /\ c.here /\ c.seen = seen
  OBVIOUS
<1> HIDE DEF c, seen
<1>5. DeletesFit(deletes', deleting', known)
  BY <1>1, <1>2, <1>3, <1>4 DEF DeletesFit
<1> QED
  BY <1>1, <1>5 DEF SessionsInv

LEMMA RemovedFits ==
  ASSUME SessionsInv, NEW c, Removed(c)
  PROVE  DOMAIN remote' = Ids /\ Deleted(remote) \subseteq Deleted(remote')
  BY DEF Removed, SessionsInv, Deleted

\* A deletion is answered: to the page that made it, which shows and keeps nothing else that
\* has the session, or to one that is gone.
LEMMA DeleteFits ==
  ASSUME SessionsInv, NEW c, DeleteAnswered(c)
  PROVE  SessionsInv'
<1>1. c \in deletes /\ Removed(c)
  BY DEF DeleteAnswered
<1>2. DOMAIN remote' = Ids /\ Deleted(remote) \subseteq Deleted(remote')
  BY <1>1, RemovedFits
<1>3. KnownFits(known, remote') /\ KnownFits(known \cup {c.session}, remote')
  BY <1>1, <1>2 DEF Removed, SessionsInv, Deleted, KnownFits
<1>4. DeletesFit(deletes \ {c}, deleting, known)
  BY FewerFit DEF SessionsInv
<1>5. CASE MountAnew /\ deletes' = Moved(deletes \ {c})
  BY <1>2, <1>5, MountFits
<1>6. CASE UNCHANGED <<list, lists, deleting, known>> /\ deletes' = deletes \ {c}
  BY <1>2, <1>3, <1>4, <1>6 DEF SessionsInv
<1>7. ASSUME c.here
      PROVE  /\ \A free, gone : DeletesFit(deletes \ {c}, free, gone)
             /\ Without(Remaining(c), known \cup {c.session})
  <2>1. \A d \in deletes \ {c} :
          ~d.here /\ ~d.still /\ DOMAIN d = {"session", "still", "here", "seen"}
    BY <1>1, <1>7 DEF SessionsInv, DeletesFit
  <2>2. Without(c.seen, known)
    BY <1>1, <1>7 DEF SessionsInv, DeletesFit
  <2> QED
    BY <2>1, <2>2 DEF DeletesFit, Without, Remaining
<1>8. CASE /\ c.here /\ InvalidateSessions /\ deletes' = Moved(deletes \ {c})
           /\ list' = [status |-> "success", data |-> Remaining(c)]
           /\ known' = known \cup {c.session}
  <2>1. RequestsFit(lists', known') /\ DeletesFit(deletes', deleting', known')
    BY <1>7, <1>8, InvalidateFits, MovedFits
  <2> QED
    BY <1>2, <1>3, <1>7, <1>8, <2>1 DEF SessionsInv, ListFits
<1>9. CASE c.here /\ LoadSessions /\ deletes' = deletes \ {c} /\ known' = known \cup {c.session}
  BY <1>2, <1>3, <1>7, <1>9, LoadFits DEF SessionsInv
<1>10. c.still => c.here
  BY <1>1 DEF SessionsInv, DeletesFit
<1>11. CASE LeaveDeleted(c)
  BY <1>5, <1>8, <1>10, <1>11 DEF LeaveDeleted
<1>12. CASE RefreshAfterDelete(c)
  BY <1>9, <1>12 DEF RefreshAfterDelete
<1>13. CASE NavigateFromTheDead(c)
  BY <1>5, <1>6, <1>13 DEF NavigateFromTheDead
<1> QED
  BY <1>11, <1>12, <1>13 DEF DeleteAnswered

LEMMA DeleteFailsFits ==
  ASSUME SessionsInv, NEW c, DeleteFails(c)
  PROVE  SessionsInv'
<1>1. /\ c \in deletes /\ deletes' = deletes \ {c} /\ UNCHANGED <<list, lists, known>>
      /\ deleting' = (IF c.here THEN "error" ELSE deleting)
      /\ UNCHANGED remote \/ Removed(c)
  BY DEF DeleteFails
<1>2. DOMAIN remote' = Ids /\ KnownFits(known, remote')
  BY <1>1, RemovedFits DEF SessionsInv, KnownFits
<1>3. DeletesFit(deletes', deleting', known)
  <2>1. c.here => \A d \in deletes' : ~d.here
    BY <1>1 DEF SessionsInv, DeletesFit
  <2> QED
    BY <1>1, <2>1 DEF SessionsInv, DeletesFit
<1> QED
  BY <1>1, <1>2, <1>3 DEF SessionsInv

LEMMA StepFits == SessionsInv /\ [Next]_vars => SessionsInv'
<1> SUFFICES ASSUME SessionsInv, [Next]_vars
             PROVE  SessionsInv'
  OBVIOUS
<1>1. CASE ReloadSessions
  BY <1>1, LoadFits DEF ReloadSessions, SessionsInv
<1>2. CASE Navigate \/ NavigateToFirst
  BY <1>2, MoveFits DEF Navigate, NavigateToFirst
<1>3. CASE \/ OpenAgain \/ SelectFolder \/ CreateSession \/ ArchiveSession \/ RenameSession
           \/ \E q : SessionAnswered(q)
           \/ UNCHANGED vars
  <2>1. UNCHANGED <<list, lists, deleting, deletes, remote, known>>
    BY <1>3
    DEF OpenAgain, SelectFolder, CreateSession, ArchiveSession, RenameSession, Change,
        SessionAnswered, vars, pageVars, callVars
  <2> QED
    BY <2>1, OthersFit DEF SessionsInv
<1>4. ASSUME NEW c, CreateAnswered(c) \/ ChangeAnswered(c) \/ DeleteAnswered(c) \/ DeleteFails(c)
      PROVE  SessionsInv'
  BY <1>4, CreateFits, ChangeFits, DeleteFits, DeleteFailsFits
<1>5. CASE \E c : CreateFails(c) \/ ChangeFails(c)
  BY <1>5, FailsFit
<1> QED
  BY <1>1, <1>2, <1>3, <1>4, <1>5, AnswerFits, DeleteSessionFits DEF Next

LEMMA StartFits == Init => SessionsInv
<1> SUFFICES ASSUME Init PROVE SessionsInv
  OBVIOUS
<1> DEFINE q == [current |-> TRUE, data |-> ListSessions(remote)]
<1>1. lists = {q} /\ list = Loading /\ deletes = {} /\ DOMAIN remote = Ids /\ known = {}
  BY DEF Init
<1>2. DOMAIN q = {"current", "data"} /\ Without(q.data, known)
  BY <1>1 DEF Without
<1> HIDE DEF q
<1> QED
  BY <1>1, <1>2 DEF SessionsInv, ListFits, RequestsFit, DeletesFit, Loading, KnownFits

\* deleteCurrentSession, loadSessions and createSession on both hosts: a session whose deletion
\* the page on the screen knows of is not offered in its list again, whatever was asked for and
\* answered in between, and whether or not the provider's answers arrive.
THEOREM DeletedStaysUnlisted == Spec => []DeletedIsNotListed
<1>1. SessionsInv => DeletedIsNotListed
  BY DEF SessionsInv, ListFits, Without, DeletedIsNotListed
<1> QED
  BY <1>1, StartFits, StepFits, PTL DEF Spec

-----------------------------------------------------------------------------
(* The types, with the bounds that Max and Min have on both hosts.          *)

\* A set of sessions has a greatest and a least one.
LEMMA LeastSession ==
  ASSUME NEW S \in SUBSET Nat, S # {}
  PROVE  \E x \in S : \A y \in S : x =< y
<1>1. PICK x \in S : \A y \in S : <<y, x>> \notin OpToRel(<, Nat)
  BY WFMin, NatLessThanWellFounded, Zenon
<1>2. ASSUME NEW y \in S
      PROVE  x =< y
  <2>1. ~(y < x)
    BY <1>1, Zenon DEF OpToRel
  <2> QED
    BY <2>1
<1> QED
  BY <1>2

LEMMA MinIsOne == ASSUME NEW S \in SUBSET Ids, S # {} PROVE Min(S) \in S
<1>1. \E x \in S : \A y \in S : x =< y
  BY LeastSession DEF Ids
<1> QED
  BY <1>1 DEF Min

LEMMA MaxIsOne == ASSUME Parameters, NEW S \in SUBSET Ids, S # {} PROVE Max(S) \in S
<1> DEFINE T == {MaxSessions - x : x \in S}
<1>1. ASSUME NEW x \in S PROVE MaxSessions - x \in Nat
  <2>1. x \in Nat /\ x =< MaxSessions /\ MaxSessions \in Nat
    BY DEF Ids, Parameters
  <2> QED
    BY <2>1
<1>2. T \in SUBSET Nat /\ T # {}
  BY <1>1
<1>3. PICK t \in T : \A u \in T : t =< u
  BY <1>2, LeastSession, Zenon
<1>4. PICK x \in S : t = MaxSessions - x
  BY <1>3
<1>5. ASSUME NEW y \in S
      PROVE  x >= y
  <2>1. MaxSessions - x =< MaxSessions - y
    BY <1>3, <1>4, <1>5
  <2> QED
    BY <2>1, <1>4, <1>5 DEF Ids, Parameters
<1> QED
  BY <1>5 DEF Max

\* A list, and the answer of a request for one, has sessions.
ListTyped(l) ==
  /\ l.status \in {"loading", "error", "success"}
  /\ l.status = "success" => l.data \subseteq Ids

ListsTyped(requests) == \A q \in requests : DOMAIN q = {"current", "data"} /\ q.data \subseteq Ids

\* A call of the page as it is now is about the session of the route.
ArchivesTyped(calls, at) ==
  \A c \in calls :
    DOMAIN c = {"session", "to", "still", "here"} /\ (c.still => c.session = at)

DeletesTyped(calls, at) ==
  \A c \in calls :
    /\ DOMAIN c = {"session", "still", "here", "seen"} /\ c.seen \subseteq Ids
    /\ c.session \in Ids
    /\ c.still => c.session = at

OpenedTyped(o, at) ==
  /\ o.status \in {"idle", "loading", "error", "success"}
  /\ o.status = "success" =>
       DOMAIN o = {"status", "session", "is"} /\ o.session = at /\ at \in Ids

ReadsTyped(requests) ==
  \A q \in requests : DOMAIN q = {"current", "session", "found"} /\ q.session \in Ids

Statuses == {"idle", "loading", "error", "success"}

SessionsTyped ==
  /\ route \in Ids \cup {None} /\ folder \in Folders
  /\ OpenedTyped(opened, route) /\ ListTyped(list) /\ ListsTyped(lists)
  /\ timer \in BOOLEAN /\ archiveError \in BOOLEAN
  /\ creating \in Statuses /\ deleting \in Statuses
  /\ ArchivesTyped(archives, route) /\ DeletesTyped(deletes, route) /\ ReadsTyped(reads)
  /\ remote \in [Ids -> {"none", "active", "archived", "deleted"}] /\ known \subseteq Ids

LEMMA OldTyped ==
  ASSUME NEW requests, ListsTyped(requests)
  PROVE  ListsTyped(Old(requests))
  BY DEF ListsTyped, Old

LEMMA LoadTyped ==
  ASSUME SessionsTyped, LoadSessions
  PROVE  ListTyped(list') /\ ListsTyped(lists') /\ timer' \in BOOLEAN
<1> DEFINE q == [current |-> TRUE, data |-> ListSessions(remote')]
<1>1. list' = Loading /\ lists' = Old(lists) \cup {q} /\ timer' = FALSE
  BY DEF LoadSessions
<1>2. DOMAIN q = {"current", "data"} /\ q.data \subseteq Ids
  BY DEF ListSessions
<1> HIDE DEF q
<1> QED
  BY <1>1, <1>2, OldTyped DEF SessionsTyped, ListsTyped, ListTyped, Loading

LEMMA InvalidateTyped ==
  ASSUME SessionsTyped, InvalidateSessions
  PROVE  ListsTyped(lists') /\ timer' \in BOOLEAN
  BY OldTyped DEF InvalidateSessions, SessionsTyped

\* The calls that were made before the page moved are about no session of it.
LEMMA MovedTyped ==
  ASSUME NEW s, NEW cs, NEW at
  PROVE  /\ ArchivesTyped(cs, at) => ArchivesTyped(Moved(cs), s)
         /\ DeletesTyped(cs, at) => DeletesTyped(Moved(cs), s)
  BY DEF ArchivesTyped, DeletesTyped, Moved

LEMMA OpenRequestTyped ==
  ASSUME SessionsTyped, NEW s \in Ids \cup {None}
  PROVE  ReadsTyped(OpenRequest(s))
<1> DEFINE q == [current |-> TRUE, session |-> s, found |-> remote'[s]]
<1>1. ReadsTyped(Old(reads))
  BY DEF SessionsTyped, ReadsTyped, Old
<1>2. DOMAIN q = {"current", "session", "found"} /\ q.session = s
  OBVIOUS
<1>3. OpenRequest(s) = IF s = None THEN Old(reads) ELSE Old(reads) \cup {q}
  BY DEF OpenRequest
<1> HIDE DEF q
<1> QED
  BY <1>1, <1>2, <1>3 DEF ReadsTyped

LEMMA ArriveTyped ==
  ASSUME SessionsTyped, NEW s \in Ids \cup {None}, Arrive(s)
  PROVE  /\ route' \in Ids \cup {None} /\ OpenedTyped(opened', route') /\ ReadsTyped(reads')
         /\ archiveError' \in BOOLEAN /\ ArchivesTyped(archives', route')
  BY MovedTyped, OpenRequestTyped DEF Arrive, SessionsTyped, OpenedTyped, Idle, Loading

LEMMA MountTyped ==
  ASSUME SessionsTyped, MountAnew
  PROVE  /\ ListTyped(list') /\ ListsTyped(lists') /\ timer' \in BOOLEAN
         /\ creating' \in Statuses /\ deleting' \in Statuses /\ known' \subseteq Ids
  BY OldTyped DEF MountAnew, SessionsTyped, ListTyped, Loading, Statuses, Deleted

LEMMA GiveUpTyped == ASSUME SessionsTyped, GiveUpCreate PROVE creating' \in Statuses
  BY DEF GiveUpCreate, SessionsTyped, Statuses

LEMMA MoveTyped ==
  ASSUME SessionsTyped, NEW s \in Ids \cup {None}, MoveTo(s)
  PROVE  SessionsTyped'
<1>1. DeletesTyped(deletes', route')
  BY MovedTyped DEF MoveTo, SessionsTyped
<1>2. UNCHANGED <<folder, remote>> /\ Arrive(s)
  BY DEF MoveTo
<1>3. /\ route' \in Ids \cup {None} /\ OpenedTyped(opened', route') /\ ReadsTyped(reads')
      /\ archiveError' \in BOOLEAN /\ ArchivesTyped(archives', route')
  BY <1>2, ArriveTyped
<1>4. CASE MountAnew
  BY <1>1, <1>2, <1>3, <1>4, MountTyped DEF SessionsTyped
<1>5. CASE GiveUpCreate /\ UNCHANGED <<list, lists, timer, deleting, known>>
  BY <1>1, <1>2, <1>3, <1>5, GiveUpTyped DEF SessionsTyped
<1> QED
  BY <1>4, <1>5 DEF MoveTo

LEMMA NavigatesTyped ==
  ASSUME Parameters, SessionsTyped, Navigate \/ NavigateToFirst
  PROVE  SessionsTyped'
<1>1. CASE Navigate
  BY <1>1, MoveTyped DEF Navigate
<1>2. CASE NavigateToFirst
  <2>1. list.data \in SUBSET Ids /\ list.data # {} /\ MoveTo(Max(list.data))
    BY <1>2 DEF NavigateToFirst, SessionsTyped, ListTyped
  <2>2. Max(list.data) \in Ids
    BY <2>1, MaxIsOne
  <2> QED
    BY <2>1, <2>2, MoveTyped
<1> QED
  BY <1>1, <1>2

LEMMA ListAnsweredTyped ==
  ASSUME SessionsTyped, SessionsAnswered
  PROVE  SessionsTyped'
<1>1. PICK q \in lists : ListAnswered(q)
  BY DEF SessionsAnswered
<1>2. /\ lists' = lists \ {q}
      /\ \/ list' = list \/ list' = Failed \/ list' = [status |-> "success", data |-> q.data]
  BY <1>1 DEF ListAnswered
<1>3. q.data \subseteq Ids
  BY DEF SessionsTyped, ListsTyped
<1>4. ListTyped(list') /\ ListsTyped(lists')
  BY <1>2, <1>3 DEF SessionsTyped, ListTyped, ListsTyped, Failed
<1> QED
  BY <1>4 DEF SessionsAnswered, SessionsTyped

LEMMA OpenAgainTyped == ASSUME SessionsTyped, OpenAgain PROVE SessionsTyped'
<1>1. OpenedTyped(opened', route')
  BY DEF OpenAgain, OpenedTyped, Loading
<1>2. ReadsTyped(reads')
  BY OpenRequestTyped DEF OpenAgain, SessionsTyped
<1> QED
  BY <1>1, <1>2 DEF OpenAgain, SessionsTyped

LEMMA ReadTyped ==
  ASSUME SessionsTyped, NEW q \in reads, SessionAnswered(q)
  PROVE  SessionsTyped'
<1>1. \/ UNCHANGED opened \/ opened' = Failed
      \/ /\ opened' = [status |-> "success", session |-> route, is |-> q.found]
         /\ q.session = route
  BY DEF SessionAnswered, IsForRoute
<1>2. OpenedTyped(opened', route)
  BY <1>1 DEF OpenedTyped, Failed, SessionsTyped, ReadsTyped
<1>3. ReadsTyped(reads')
  BY DEF SessionAnswered, SessionsTyped, ReadsTyped
<1> QED
  BY <1>2, <1>3 DEF SessionAnswered, SessionsTyped

LEMMA CreateSessionTyped == ASSUME SessionsTyped, CreateSession PROVE SessionsTyped'
  BY DEF CreateSession, SessionsTyped, Statuses

LEMMA CreateTyped ==
  ASSUME SessionsTyped, NEW c, CreateAnswered(c)
  PROVE  SessionsTyped'
<1> PICK s \in Ids :
      /\ remote' = [remote EXCEPT ![s] = "active"]
      /\ IF InScope(c)
         THEN /\ Arrive(s)
              /\ \/ MountAnew
                 \/ /\ ~Keyed
                    /\ InvalidateSessions
                    /\ list' = [status |-> "success",
                         data |-> {s} \cup (IF list.status = "success" THEN list.data ELSE {})]
                    /\ creating' = "success" /\ UNCHANGED <<deleting, known>>
              /\ deletes' = Moved(deletes)
         ELSE /\ creating' = IF c.still THEN "idle" ELSE creating
              /\ UNCHANGED <<route, opened, list, timer, archiveError, deleting, reads,
                             lists, archives, deletes, known>>
  BY DEF CreateAnswered, Created
<1>1. remote' \in [Ids -> {"none", "active", "archived", "deleted"}] /\ folder' \in Folders
  BY DEF SessionsTyped, CreateAnswered
<1>2. CASE ~InScope(c)
  <2>1. creating' \in Statuses
    BY <1>2 DEF SessionsTyped, Statuses
  <2> QED
    BY <1>1, <1>2, <2>1 DEF SessionsTyped
<1>3. CASE InScope(c)
  <2>1. /\ route' \in Ids \cup {None} /\ OpenedTyped(opened', route') /\ ReadsTyped(reads')
        /\ archiveError' \in BOOLEAN /\ ArchivesTyped(archives', route')
    BY <1>3, ArriveTyped
  <2>2. DeletesTyped(deletes', route')
    BY <1>3, MovedTyped DEF SessionsTyped
  <2>3. CASE MountAnew
    BY <1>1, <2>1, <2>2, <2>3, MountTyped DEF SessionsTyped
  <2>4. CASE ~MountAnew
    <3>1. ListsTyped(lists') /\ timer' \in BOOLEAN
      BY <1>3, <2>4, InvalidateTyped
    <3>2. ListTyped(list')
      BY <1>3, <2>4 DEF ListTyped, SessionsTyped
    <3>3. creating' \in Statuses /\ deleting' \in Statuses
      BY <1>3, <2>4 DEF Statuses, SessionsTyped
    <3>4. known' \subseteq Ids
      BY <1>3, <2>4 DEF SessionsTyped
    <3> QED
      BY <1>1, <2>1, <2>2, <3>1, <3>2, <3>3, <3>4 DEF SessionsTyped
  <2> QED
    BY <2>3, <2>4
<1> QED
  BY <1>2, <1>3

LEMMA CreateFailsTyped ==
  ASSUME SessionsTyped, NEW c, CreateFails(c)
  PROVE  SessionsTyped'
<1>1. creating' \in Statuses
  BY DEF CreateFails, SessionsTyped, Statuses
<1>2. remote' \in [Ids -> {"none", "active", "archived", "deleted"}]
  BY DEF CreateFails, Created, SessionsTyped
<1> QED
  BY <1>1, <1>2 DEF CreateFails, SessionsTyped

LEMMA ChangeSessionTyped ==
  ASSUME SessionsTyped, ArchiveSession \/ RenameSession
  PROVE  SessionsTyped'
<1> PICK to : Change(to)
  BY DEF ArchiveSession, RenameSession
<1>1. archiveError' \in BOOLEAN
  BY DEF Change, SessionsTyped
<1>2. ArchivesTyped(archives', route)
  BY DEF Change, SessionsTyped, ArchivesTyped
<1> QED
  BY <1>1, <1>2 DEF Change, SessionsTyped

LEMMA ChangedTyped ==
  ASSUME SessionsTyped, NEW c, Changed(c)
  PROVE  remote' \in [Ids -> {"none", "active", "archived", "deleted"}]
<1>1. After(c) \in {"active", "archived"}
  BY DEF Changed, Exists, After
<1> QED
  BY <1>1 DEF Changed, SessionsTyped

LEMMA ChangeTyped ==
  ASSUME SessionsTyped, NEW c \in archives, ChangeAnswered(c)
  PROVE  SessionsTyped'
<1>1. DOMAIN c = {"session", "to", "still", "here"} /\ (c.still => c.session = route)
  BY DEF SessionsTyped, ArchivesTyped
<1>2. /\ archives' = archives \ {c} /\ remote' = [remote EXCEPT ![c.session] = After(c)]
      /\ Changed(c)
      /\ UNCHANGED <<route, folder, creating, archiveError, deleting, deletes, reads, known>>
      /\ ArchiveAnswered(c) \/ RenameAnswered(c) \/ UNCHANGED <<opened, list, lists, timer>>
  BY DEF ChangeAnswered, Changed
<1>4. remote' \in [Ids -> {"none", "active", "archived", "deleted"}]
  BY <1>2, ChangedTyped
<1>5. ArchivesTyped(archives', route')
  BY <1>2 DEF SessionsTyped, ArchivesTyped
<1>6. \/ LoadSessions \/ UNCHANGED <<list, lists, timer>>
      \/ InvalidateSessions /\ UNCHANGED list
  BY <1>2 DEF ArchiveAnswered, RenameAnswered, PublishSummary
<1>7. ListTyped(list') /\ ListsTyped(lists') /\ timer' \in BOOLEAN
  BY <1>6, LoadTyped, InvalidateTyped DEF SessionsTyped
<1>8. \/ UNCHANGED opened
      \/ opened.status = "success" /\ opened' = [opened EXCEPT !.is = After(c)]
      \/ /\ opened.status = "success"
         /\ opened' = [status |-> "success", session |-> route, is |-> After(c)]
  BY <1>1, <1>2 DEF ArchiveAnswered, RenameAnswered, PublishSummary, Open
<1>9. OpenedTyped(opened', route)
  BY <1>8 DEF OpenedTyped, SessionsTyped
<1> QED
  BY <1>2, <1>4, <1>5, <1>7, <1>9 DEF SessionsTyped

LEMMA ChangeFailsTyped ==
  ASSUME SessionsTyped, NEW c \in archives, ChangeFails(c)
  PROVE  SessionsTyped'
<1>1. archiveError' \in BOOLEAN
  BY DEF ChangeFails, SessionsTyped
<1>2. ArchivesTyped(archives', route')
  BY DEF ChangeFails, SessionsTyped, ArchivesTyped
<1>3. remote' \in [Ids -> {"none", "active", "archived", "deleted"}]
  BY ChangedTyped DEF ChangeFails, SessionsTyped
<1> QED
  BY <1>1, <1>2, <1>3 DEF ChangeFails, SessionsTyped

LEMMA DeleteSessionTyped ==
  ASSUME SessionsTyped, DeleteSession
  PROVE  SessionsTyped'
<1> DEFINE sessions == IF list.status = "success" THEN list.data ELSE {}
           c == [session |-> route, still |-> TRUE, here |-> TRUE, seen |-> sessions]
<1>1. deletes' = deletes \cup {c} /\ deleting' \in Statuses
  BY DEF DeleteSession, Statuses
<1>2. sessions \subseteq Ids
  BY DEF SessionsTyped, ListTyped
<1>3. DOMAIN c = {"session", "still", "here", "seen"} /\ c.seen = sessions /\ c.session = route
  OBVIOUS
<1> HIDE DEF c, sessions
<1>5. route \in Ids
  BY DEF DeleteSession, Open, SessionsTyped, OpenedTyped
<1>4. DeletesTyped(deletes', route)
  BY <1>1, <1>2, <1>3, <1>5 DEF DeletesTyped, SessionsTyped
<1> QED
  BY <1>1, <1>4 DEF DeleteSession, SessionsTyped

\* deleteCurrentSession: the neighbour is a session, or none is left.
LEMMA NeighbourTyped ==
  ASSUME Parameters, NEW c, c.seen \subseteq Ids
  PROVE  Neighbour(c) \in Ids \cup {None}
<1> DEFINE left == Remaining(c)
           older == {s \in left : s < c.session}
<1>1. left \in SUBSET Ids /\ older \in SUBSET left
  BY DEF Remaining
<1>2. left # {} => Max(left) \in Ids /\ Min(left) \in Ids
  BY <1>1, MaxIsOne, MinIsOne
<1>3. older # {} => Max(older) \in Ids
  BY <1>1, MaxIsOne
<1> QED
  BY <1>2, <1>3 DEF Neighbour

LEMMA DeleteTyped ==
  ASSUME Parameters, SessionsTyped, NEW c \in deletes, DeleteAnswered(c)
  PROVE  SessionsTyped'
<1>1. DOMAIN c = {"session", "still", "here", "seen"} /\ c.seen \subseteq Ids
      /\ known \cup {c.session} \subseteq Ids
  BY DEF SessionsTyped, DeletesTyped
<1>2. Neighbour(c) \in Ids \cup {None}
  BY <1>1, NeighbourTyped
<1>3. remote' \in [Ids -> {"none", "active", "archived", "deleted"}] /\ folder' \in Folders
  BY DEF SessionsTyped, DeleteAnswered, Removed
<1>4. \A at : DeletesTyped(deletes \ {c}, route) /\ DeletesTyped(Moved(deletes \ {c}), at)
  <2>1. DeletesTyped(deletes \ {c}, route)
    BY DEF SessionsTyped, DeletesTyped
  <2> QED
    BY <2>1, MovedTyped
<1>5. CASE LeaveDeleted(c)
  <2>1. /\ route' \in Ids \cup {None} /\ OpenedTyped(opened', route') /\ ReadsTyped(reads')
        /\ archiveError' \in BOOLEAN /\ ArchivesTyped(archives', route')
    BY <1>2, <1>5, ArriveTyped DEF LeaveDeleted
  <2>2. DeletesTyped(deletes', route')
    BY <1>4, <1>5 DEF LeaveDeleted
  <2>3. CASE MountAnew
    BY <1>3, <2>1, <2>2, <2>3, MountTyped DEF SessionsTyped
  <2>4. CASE ~MountAnew
    <3>1. /\ GiveUpCreate /\ InvalidateSessions /\ deleting' = "success"
          /\ list' = [status |-> "success", data |-> Remaining(c)]
          /\ known' = known \cup {c.session}
      BY <1>5, <2>4 DEF LeaveDeleted
    <3>2. ListTyped(list') /\ deleting' \in Statuses
      BY <3>1, <1>1 DEF ListTyped, Remaining, Statuses
    <3> QED
      BY <1>1, <1>3, <2>1, <2>2, <3>1, <3>2, InvalidateTyped, GiveUpTyped DEF SessionsTyped
  <2> QED
    BY <2>3, <2>4
<1>6. CASE RefreshAfterDelete(c)
  <2>1. ListTyped(list') /\ ListsTyped(lists') /\ timer' \in BOOLEAN
    BY <1>6, LoadTyped DEF RefreshAfterDelete
  <2>2. deleting' \in Statuses
    BY <1>6 DEF RefreshAfterDelete, Statuses
  <2> QED
    BY <1>1, <1>3, <1>4, <1>6, <2>1, <2>2 DEF RefreshAfterDelete, SessionsTyped
<1>7. CASE NavigateFromTheDead(c)
  <2>1. CASE Neighbour(c) = route
    BY <1>3, <1>4, <1>7, <2>1 DEF NavigateFromTheDead, SessionsTyped
  <2>2. CASE Neighbour(c) # route
    <3>1. /\ route' \in Ids \cup {None} /\ OpenedTyped(opened', route') /\ ReadsTyped(reads')
          /\ archiveError' \in BOOLEAN /\ ArchivesTyped(archives', route')
      BY <1>2, <1>7, <2>2, ArriveTyped DEF NavigateFromTheDead
    <3> QED
      BY <1>3, <1>4, <1>7, <2>2, <3>1, MountTyped DEF NavigateFromTheDead, SessionsTyped
  <2> QED
    BY <2>1, <2>2
<1> QED
  BY <1>5, <1>6, <1>7 DEF DeleteAnswered

LEMMA DeleteFailsTyped ==
  ASSUME SessionsTyped, NEW c \in deletes, DeleteFails(c)
  PROVE  SessionsTyped'
<1>1. deleting' \in Statuses
  BY DEF DeleteFails, SessionsTyped, Statuses
<1>2. DeletesTyped(deletes', route)
  BY DEF DeleteFails, SessionsTyped, DeletesTyped
<1>3. remote' \in [Ids -> {"none", "active", "archived", "deleted"}]
  BY DEF DeleteFails, Removed, SessionsTyped
<1> QED
  BY <1>1, <1>2, <1>3 DEF DeleteFails, SessionsTyped

LEMMA StepTyped == ASSUME Parameters PROVE SessionsTyped /\ [Next]_vars => SessionsTyped'
<1> SUFFICES ASSUME SessionsTyped, [Next]_vars
             PROVE  SessionsTyped'
  OBVIOUS
<1>1. CASE ReloadSessions
  BY <1>1, LoadTyped DEF ReloadSessions, SessionsTyped
<1>2. CASE SelectFolder
  BY <1>2 DEF SelectFolder, callVars, SessionsTyped
<1>3. CASE UNCHANGED vars
  BY <1>3 DEF vars, pageVars, callVars, SessionsTyped
<1>4. CASE \/ SessionsAnswered \/ Navigate \/ NavigateToFirst \/ OpenAgain
           \/ CreateSession \/ ArchiveSession \/ RenameSession \/ DeleteSession
  BY <1>4, ListAnsweredTyped, NavigatesTyped, OpenAgainTyped, CreateSessionTyped,
     ChangeSessionTyped, DeleteSessionTyped
<1>5. ASSUME NEW q \in reads, SessionAnswered(q) PROVE SessionsTyped'
  BY <1>5, ReadTyped
<1>6. ASSUME NEW c \in creates, CreateAnswered(c) \/ CreateFails(c) PROVE SessionsTyped'
  BY <1>6, CreateTyped, CreateFailsTyped
<1>7. ASSUME NEW c \in archives, ChangeAnswered(c) \/ ChangeFails(c) PROVE SessionsTyped'
  BY <1>7, ChangeTyped, ChangeFailsTyped
<1>8. ASSUME NEW c \in deletes, DeleteAnswered(c) \/ DeleteFails(c) PROVE SessionsTyped'
  BY <1>8, DeleteTyped, DeleteFailsTyped
<1> QED
  BY <1>1, <1>2, <1>3, <1>4, <1>5, <1>6, <1>7, <1>8 DEF Next

LEMMA StartTyped == ASSUME Parameters PROVE Init => SessionsTyped
<1> SUFFICES ASSUME Init PROVE SessionsTyped
  OBVIOUS
<1> DEFINE q == [current |-> TRUE, data |-> ListSessions(remote)]
<1>1. lists = {q} /\ list = Loading /\ deletes = {} /\ archives = {}
  BY DEF Init
<1>2. DOMAIN q = {"current", "data"} /\ q.data \subseteq Ids
  BY DEF ListSessions
<1> HIDE DEF q
<1>3. ListTyped(list) /\ ListsTyped(lists) /\ ArchivesTyped(archives, route)
      /\ DeletesTyped(deletes, route)
  BY <1>1, <1>2 DEF ListTyped, ListsTyped, ArchivesTyped, DeletesTyped, Loading
<1>4. remote \in [Ids -> {"none", "active", "archived", "deleted"}]
  BY DEF Init
<1>5. route \in Ids \cup {None}
  BY DEF Init, Ids, Parameters
<1>6. OpenedTyped(opened, route)
  BY DEF Init, OpenedTyped, Idle, Loading
<1>7. ReadsTyped(reads)
  <2> DEFINE a == [current |-> TRUE, session |-> route, found |-> remote[route]]
  <2>1. DOMAIN a = {"current", "session", "found"} /\ a.session = route
    OBVIOUS
  <2>2. reads = IF route = None THEN {} ELSE {a}
    BY DEF Init
  <2> HIDE DEF a
  <2> QED
    BY <2>1, <2>2, <1>5 DEF ReadsTyped
<1> QED
  BY <1>3, <1>4, <1>5, <1>6, <1>7 DEF Init, SessionsTyped, Statuses

\* useWorkbenchController on both hosts: the session that is open is the one of the route,
\* whatever was asked for, archived, renamed or deleted before the route came to it, and a
\* list or a neighbour names sessions only.
THEOREM OpenIsOfRoute == ASSUME Parameters PROVE Spec => []TypeOK
<1>1. SessionsTyped /\ SessionsInv => TypeOK
  BY DEF SessionsTyped, TypeOK, OpenedTyped, ListTyped, Statuses, Open, SessionsInv, KnownFits
<1> QED
  BY <1>1, StartTyped, StepTyped, StartFits, StepFits, PTL DEF Spec

=============================================================================
