------------------------- MODULE PluginPagesProofs -------------------------
(***************************************************************************)
(* What the pages of the plugin show, for any folders, and any number of   *)
(* requests and of what they are about: the smaller pages, and then the    *)
(* plugin.                                                                 *)
(***************************************************************************)
EXTENDS PluginPages, SinglePagesProofs, TLAPS

-----------------------------------------------------------------------------
(* The context in the drawer, for any folders and any number of requests.  *)

DrawerUids == FoldersOf["drawer"] \cup {None}

DrawerContext ==
  [status: {"idle", "loading", "error"}] \cup [status: {"success"}, of: FoldersOf["drawer"]]

DrawerPage ==
  [folder: DrawerUids, context: DrawerContext, asked: DrawerUids, timer: BOOLEAN, drawer: BOOLEAN]
DrawerRequest == [folder: FoldersOf["drawer"], current: BOOLEAN]

DrawerTypes == page \in DrawerPage /\ calls \subseteq DrawerRequest /\ store = None

\* One request counts at most, and it is for the folder that was asked for last.
DrawerCounting ==
  \A q \in calls : q.current => q = [folder |-> page.asked, current |-> TRUE]

\* The context that is kept is of the folder that was asked for last.
DrawerKept == page.asked # None /\ page.context.status = "success" => page.context.of = page.asked

DrawerInv == DrawerTypes /\ DrawerCounting /\ DrawerKept /\ (page.timer => page.folder # None)

-----------------------------------------------------------------------------
LEMMA DrawerGivenUpFacts ==
  ASSUME calls \subseteq DrawerRequest
  PROVE  Drawer!GivenUp \subseteq DrawerRequest /\ \A q \in Drawer!GivenUp : q.current = FALSE
  BY DEF Drawer!GivenUp, DrawerRequest

LEMMA DrawerLoadInv ==
  ASSUME DrawerInv, NEW p \in DrawerPage, page.folder # None,
         p.folder = page.folder, p.timer => page.timer, Drawer!LoadContext(p)
  PROVE  DrawerInv'
<1> DEFINE q == [folder |-> page.folder, current |-> TRUE]
           context == [status |-> "loading"]
<1>1. page.folder \in FoldersOf["drawer"] /\ q \in DrawerRequest
      /\ context \in DrawerContext /\ context.status = "loading"
  BY DEF DrawerInv, DrawerTypes, DrawerPage, DrawerRequest, DrawerContext, DrawerUids
<1>2. page' = [p EXCEPT !.asked = page.folder, !.context = context]
      /\ calls' = Drawer!GivenUp \cup {q} /\ store' = store
  BY DEF Drawer!LoadContext
<1>3. Drawer!GivenUp \subseteq DrawerRequest /\ \A r \in Drawer!GivenUp : r.current = FALSE
  BY DrawerGivenUpFacts DEF DrawerInv, DrawerTypes
<1> HIDE DEF context
<1>4. /\ page' \in DrawerPage /\ page'.asked = page.folder /\ page'.context = context
      /\ page'.timer = p.timer /\ page'.folder = page.folder
  BY <1>1, <1>2 DEF DrawerPage
<1> QED
  BY <1>1, <1>2, <1>3, <1>4 DEF DrawerInv, DrawerTypes, DrawerCounting, DrawerKept

LEMMA DrawerFolderInv ==
  ASSUME DrawerInv, Drawer!FolderChanges
  PROVE  DrawerInv'
<1>1. PICK f \in DrawerUids :
        page' = [page EXCEPT !.folder = f, !.timer = f # None,
                             !.asked = IF f = None THEN None ELSE @]
  BY DEF Drawer!FolderChanges, DrawerUids
<1> DEFINE asked == IF f = None THEN None ELSE page.asked
           pending == f # None
<1>2. asked \in DrawerUids /\ pending \in BOOLEAN
  BY DEF DrawerUids, DrawerInv, DrawerTypes, DrawerPage
<1>3. page' = [page EXCEPT !.folder = f, !.timer = pending, !.asked = asked]
  BY <1>1
<1>4. asked # None => asked = page.asked
  OBVIOUS
<1> HIDE DEF asked
<1>5. /\ page' \in DrawerPage /\ page'.folder = f /\ page'.asked = asked
      /\ page'.context = page.context /\ page'.timer = pending
  BY <1>2, <1>3 DEF DrawerInv, DrawerTypes, DrawerPage
<1>6. calls' \subseteq DrawerRequest /\ (\A q \in calls' : q.current = FALSE) /\ store' = store
  BY DrawerGivenUpFacts DEF Drawer!FolderChanges, DrawerInv, DrawerTypes
<1> QED
  BY <1>4, <1>5, <1>6 DEF DrawerInv, DrawerTypes, DrawerCounting, DrawerKept

LEMMA DrawerAnswerInv ==
  ASSUME DrawerInv, NEW q \in calls, Drawer!ContextAnswered(q) \/ Drawer!ContextFails(q)
  PROVE  DrawerInv'
<1>1. calls' = calls \ {q} /\ store' = store
  BY DEF Drawer!ContextAnswered, Drawer!ContextFails
<1>2. CASE page' = page
  BY <1>1, <1>2 DEF DrawerInv, DrawerTypes, DrawerCounting, DrawerKept
<1>3. CASE page' # page
  <2>1. Drawer!Counts(q)
    BY <1>3 DEF Drawer!ContextAnswered, Drawer!ContextFails
  <2>2. q.folder = page.asked /\ q.folder = page.folder
    BY <2>1 DEF Drawer!Counts, DrawerInv, DrawerCounting
  <2> DEFINE context == IF Drawer!ContextAnswered(q) THEN [status |-> "success", of |-> q.folder]
                        ELSE [status |-> "error"]
  <2>3. page' = [page EXCEPT !.context = context]
    BY <2>1 DEF Drawer!ContextAnswered, Drawer!ContextFails
  <2>4. context.status = "success" => context.of = page.asked
    BY <2>2
  <2>5. context \in DrawerContext
    BY DEF DrawerInv, DrawerTypes, DrawerRequest, DrawerContext
  <2> HIDE DEF context
  <2> QED
    BY <1>1, <2>2, <2>3, <2>4, <2>5
    DEF DrawerInv, DrawerTypes, DrawerPage, DrawerCounting, DrawerKept
<1> QED
  BY <1>2, <1>3

LEMMA DrawerInitInv == Drawer!Init => DrawerInv
<1> SUFFICES ASSUME Drawer!Init
             PROVE  DrawerInv
  OBVIOUS
<1> DEFINE context == [status |-> "idle"]
<1>1. PICK uid \in DrawerUids :
        page = [folder |-> uid, context |-> context, asked |-> None,
                timer |-> uid # None, drawer |-> FALSE]
  BY DEF Drawer!Init, DrawerUids
<1>2. context \in DrawerContext
  BY DEF DrawerContext
<1> HIDE DEF context
<1>3. page \in DrawerPage /\ page.asked = None /\ page.folder = uid /\ page.timer = (uid # None)
  BY <1>1, <1>2 DEF DrawerPage, DrawerUids
<1> QED
  BY <1>3 DEF Drawer!Init, DrawerInv, DrawerTypes, DrawerCounting, DrawerKept

LEMMA DrawerNextInv == DrawerInv /\ [Drawer!Next]_(Drawer!vars) => DrawerInv'
<1> SUFFICES ASSUME DrawerInv, [Drawer!Next]_(Drawer!vars)
             PROVE  DrawerInv'
  OBVIOUS
<1>1. CASE Drawer!FolderChanges
  BY <1>1, DrawerFolderInv
<1>2. CASE Drawer!TimerLoads
  <2> DEFINE p == [page EXCEPT !.timer = FALSE]
  <2>1. p \in DrawerPage /\ p.folder = page.folder /\ p.timer = FALSE
    BY DEF DrawerInv, DrawerTypes, DrawerPage
  <2>2. Drawer!LoadContext(p) /\ page.folder # None
    BY <1>2 DEF Drawer!TimerLoads, DrawerInv
  <2> HIDE DEF p
  <2> QED
    BY <2>1, <2>2, DrawerLoadInv
<1>3. CASE Drawer!RetryContext
  <2>1. Drawer!LoadContext(page) /\ page.folder # None
    BY <1>3 DEF Drawer!RetryContext, Drawer!VisibleContext
  <2> QED
    BY <2>1, DrawerLoadInv DEF DrawerInv, DrawerTypes
<1>4. CASE Drawer!ToggleContext
  <2>1. /\ page' \in DrawerPage /\ page'.asked = page.asked /\ page'.context = page.context
        /\ page'.timer = page.timer /\ page'.folder = page.folder
    BY <1>4 DEF Drawer!ToggleContext, DrawerInv, DrawerTypes, DrawerPage
  <2> QED
    BY <1>4, <2>1 DEF Drawer!ToggleContext, DrawerInv, DrawerTypes, DrawerCounting, DrawerKept
<1>5. ASSUME NEW q \in calls, Drawer!ContextAnswered(q) \/ Drawer!ContextFails(q)
      PROVE  DrawerInv'
  BY <1>5, DrawerAnswerInv
<1>6. CASE UNCHANGED Drawer!vars
  BY <1>6 DEF Drawer!vars, DrawerInv, DrawerTypes, DrawerCounting, DrawerKept
<1> QED
  BY <1>1, <1>2, <1>3, <1>4, <1>5, <1>6 DEF Drawer!Next

\* What the drawer shows is of the active folder, in whatever order the answers for the folders
\* that were active arrive.
THEOREM DrawerContextsAreOfFolder == Drawer!Spec => []Drawer!ContextIsOfFolder
<1>1. DrawerInv => Drawer!ContextIsOfFolder
  BY DEF DrawerInv, DrawerKept, Drawer!ContextIsOfFolder, Drawer!VisibleContext
<1> QED
  BY <1>1, DrawerInitInv, DrawerNextInv, PTL DEF Drawer!Spec

LEMMA DrawerIsTyped == DrawerInv => Drawer!TypeOK
<1> SUFFICES ASSUME DrawerInv
             PROVE  Drawer!TypeOK
  OBVIOUS
<1> DEFINE last == [folder |-> page.asked, current |-> TRUE]
           counting == {q \in calls : q.current}
<1>1. counting \subseteq {last}
  BY DEF DrawerInv, DrawerCounting
<1>2. IsFiniteSet({last}) /\ Cardinality({last}) = 1
  BY FS_Singleton
<1>3. Cardinality(counting) <= 1
  BY <1>1, <1>2, FS_Subset
<1> QED
  BY <1>3 DEF Drawer!Cardinality, Cardinality, DrawerInv, DrawerTypes, DrawerPage,
         DrawerUids, Drawer!TypeOK

\* The drawer loads one context at a time that counts, for one of the folders.
THEOREM DrawerCountsItsRequests == Drawer!Spec => []Drawer!TypeOK
  BY DrawerInitInv, DrawerNextInv, DrawerIsTyped, PTL DEF Drawer!Spec

-----------------------------------------------------------------------------
(* What the shell shows of the folders, for any folders and any number of  *)
(* requests.                                                               *)

ShellData == UNION {[F -> Shell!Permissions] : F \in SUBSET FoldersOf["shell"]}

ShellList ==
  [status: {"loading", "error"}] \cup [status: {"success"}, data: ShellData, fresh: BOOLEAN]

ShellRequests ==
  [current: BOOLEAN, since: BOOLEAN, hits: {None} \cup {<<F>> : F \in SUBSET FoldersOf["shell"]},
   permissions: {None} \cup {<<p>> : p \in [FoldersOf["shell"] -> Shell!Permissions]}]

ShellPage == [list: ShellList, active: Shell!Uids \cup {None}, due: BOOLEAN, open: BOOLEAN]
ShellCalls == [lists: SUBSET ShellRequests, requests: SUBSET FoldersOf["shell"]]
ShellStore ==
  [folders: SUBSET FoldersOf["shell"], permission: [FoldersOf["shell"] -> Shell!Permissions],
   persisted: Shell!Uids \cup {None}, legacy: Shell!Uids \cup {None}]

ShellTypes == page \in ShellPage /\ calls \in ShellCalls /\ store \in ShellStore

\* The tab remembers the active folder, and nothing else once a list was shown.
ShellRemembered ==
  /\ page.active # None => store.persisted \in {page.active, None}
  /\ Shell!Showing /\ page.active = None => store.persisted = None /\ DOMAIN page.list.data = {}
  /\ Shell!Showing /\ page.active # None => page.active \in DOMAIN page.list.data

\* An answer that will be shown was asked for after the last refusal.
ShellAsked == \A q \in calls.lists : q.current => q.since

ShellInv == ShellTypes /\ ShellRemembered /\ ShellAsked /\ Shell!ShownAfterRefusal

-----------------------------------------------------------------------------
\* The folders that are shown are folders, with the permissions that were found.
LEMMA ShellParsedIsData ==
  ASSUME NEW q \in ShellRequests, q.hits # None, q.permissions # None
  PROVE  Shell!ParseFolders(q) \in ShellData
         /\ DOMAIN Shell!ParseFolders(q) \subseteq FoldersOf["shell"]
<1> DEFINE F == {g \in q.hits[1] : q.permissions[1][g] # "none"}
<1>1. q.hits[1] \in SUBSET FoldersOf["shell"]
      /\ q.permissions[1] \in [FoldersOf["shell"] -> Shell!Permissions]
  BY DEF ShellRequests
<1>2. F \in SUBSET FoldersOf["shell"]
  BY <1>1
<1>3. Shell!ParseFolders(q) \in [F -> Shell!Permissions] /\ DOMAIN Shell!ParseFolders(q) = F
  BY <1>1, <1>2 DEF Shell!ParseFolders
<1> HIDE DEF F
<1> QED
  BY <1>2, <1>3 DEF ShellData

LEMMA ShellServedInv ==
  ASSUME ShellInv, NEW q \in calls.lists, Shell!SearchServed(q) \/ Shell!PermissionsServed(q)
  PROVE  ShellInv'
<1> DEFINE new == IF Shell!SearchServed(q) THEN [q EXCEPT !.hits = <<store.folders>>]
                  ELSE [q EXCEPT !.permissions = <<store.permission>>]
<1>1. q \in ShellRequests /\ calls \in ShellCalls /\ store.folders \in SUBSET FoldersOf["shell"]
      /\ store.permission \in [FoldersOf["shell"] -> Shell!Permissions]
  BY DEF ShellInv, ShellTypes, ShellCalls, ShellStore
<1>2. new \in ShellRequests /\ new.current = q.current /\ new.since = q.since
  BY <1>1 DEF ShellRequests
<1>3. calls' = [calls EXCEPT !.lists = (@ \ {q}) \cup {new}] /\ UNCHANGED <<page, store>>
  BY DEF Shell!SearchServed, Shell!PermissionsServed
<1> HIDE DEF new
<1>4. calls' \in ShellCalls /\ calls'.lists = (calls.lists \ {q}) \cup {new}
  BY <1>1, <1>2, <1>3 DEF ShellCalls
<1> QED
  BY <1>2, <1>3, <1>4
  DEF ShellInv, ShellTypes, ShellRemembered, ShellAsked, Shell!ShownAfterRefusal, Shell!Showing

LEMMA ShellAnsweredInv ==
  ASSUME Shell!Parameters, ShellInv, NEW q \in calls.lists,
         Shell!FoldersAnswered(q) \/ Shell!FoldersFail(q)
  PROVE  ShellInv'
<1> DEFINE data == Shell!ParseFolders(q)
           rows == [status |-> "success", data |-> data, fresh |-> q.since]
<1>1. q \in ShellRequests /\ page \in ShellPage /\ calls \in ShellCalls /\ store \in ShellStore
  BY DEF ShellInv, ShellTypes, ShellCalls
<1>2. calls' = [calls EXCEPT !.lists = @ \ {q}]
  BY DEF Shell!FoldersAnswered, Shell!FoldersFail
<1>3. calls' \in ShellCalls /\ ShellAsked'
  BY <1>1, <1>2 DEF ShellCalls, ShellInv, ShellAsked
<1>4. CASE Shell!FoldersAnswered(q) /\ q.current
  <2>1. q.since = TRUE
    BY <1>1, <1>4 DEF ShellInv, ShellAsked, ShellRequests
  <2>2. data \in ShellData /\ DOMAIN data \subseteq FoldersOf["shell"]
    BY <1>1, <1>4, ShellParsedIsData DEF Shell!FoldersAnswered
  <2> HIDE DEF data
  <2>3. rows \in ShellList /\ rows.status = "success" /\ rows.data = data /\ rows.fresh
    BY <2>1, <2>2 DEF ShellList
  <2> HIDE DEF rows
  <2>4. PICK active \in Shell!Active(data) :
          /\ page' = [page EXCEPT !.active = active, !.list = rows]
          /\ store' = [store EXCEPT !.persisted =
                         IF active = page.active /\ active # None THEN @ ELSE active]
    BY <1>4 DEF Shell!FoldersAnswered, data, rows
  <2>5. /\ active \in Shell!Uids \cup {None}
        /\ active = None => DOMAIN data = {}
        /\ active # None => active \in DOMAIN data
    BY <2>2 DEF Shell!Active, Shell!Uids, Shell!Parameters
  <2>6. page' \in ShellPage /\ page'.list = rows /\ page'.active = active
    BY <1>1, <2>3, <2>4, <2>5 DEF ShellPage
  <2>7. store' \in ShellStore /\ store'.persisted \in {active, None}
        /\ (active = None => store'.persisted = None)
    BY <1>1, <2>4, <2>5 DEF ShellStore, ShellInv, ShellRemembered
  <2> QED
    BY <1>3, <2>3, <2>5, <2>6, <2>7
    DEF ShellInv, ShellTypes, ShellRemembered, Shell!ShownAfterRefusal, Shell!Showing
<1>5. CASE UNCHANGED <<page, store>>
  BY <1>3, <1>5 DEF ShellInv, ShellTypes, ShellRemembered, Shell!ShownAfterRefusal, Shell!Showing
<1>6. CASE Shell!FoldersFail(q) /\ q.current
  <2> DEFINE error == [status |-> "error"]
  <2>1. error \in ShellList /\ error.status # "success"
    BY DEF ShellList
  <2>2. page' = [page EXCEPT !.list = error] /\ store' = store
    BY <1>6 DEF Shell!FoldersFail
  <2> HIDE DEF error
  <2>3. page' \in ShellPage /\ page'.list = error /\ page'.active = page.active
    BY <1>1, <2>1, <2>2 DEF ShellPage
  <2> QED
    BY <1>3, <2>1, <2>2, <2>3
    DEF ShellInv, ShellTypes, ShellRemembered, Shell!ShownAfterRefusal, Shell!Showing
<1> QED
  BY <1>4, <1>5, <1>6 DEF Shell!FoldersAnswered, Shell!FoldersFail

\* refreshFolders: nothing is shown, and no answer under way will be.
LEMMA ShellRefreshInv ==
  ASSUME ShellInv, NEW rest \in ShellCalls, Shell!RefreshFolders(rest), UNCHANGED store
  PROVE  ShellInv'
<1> DEFINE rows == [status |-> "loading"]
           old == {[q EXCEPT !.current = FALSE] : q \in rest.lists}
<1>1. rows \in ShellList /\ rows.status # "success"
  BY DEF ShellList
<1>2. page' = [page EXCEPT !.list = rows, !.due = TRUE]
      /\ calls' = [rest EXCEPT !.lists = old]
  BY DEF Shell!RefreshFolders
<1>3. old \subseteq ShellRequests /\ \A q \in old : q.current = FALSE
  BY DEF ShellCalls, ShellRequests
<1> HIDE DEF rows, old
<1>4. page' \in ShellPage /\ page'.list = rows /\ page'.active = page.active
  BY <1>1, <1>2 DEF ShellInv, ShellTypes, ShellPage
<1>5. calls' \in ShellCalls /\ calls'.lists = old
  BY <1>2, <1>3 DEF ShellCalls
<1> QED
  BY <1>1, <1>3, <1>4, <1>5
  DEF ShellInv, ShellTypes, ShellRemembered, ShellAsked, Shell!ShownAfterRefusal, Shell!Showing

LEMMA ShellEffectInv ==
  ASSUME ShellInv, Shell!EffectRuns
  PROVE  ShellInv'
<1>1. Shell!ListRequest \in ShellRequests /\ Shell!ListRequest.since
  BY DEF Shell!ListRequest, ShellRequests
<1>2. page' \in ShellPage /\ page'.list = page.list /\ page'.active = page.active
  BY DEF Shell!EffectRuns, ShellInv, ShellTypes, ShellPage
<1>3. calls' \in ShellCalls /\ calls'.lists = {Shell!ListRequest}
  BY <1>1 DEF Shell!EffectRuns, ShellInv, ShellTypes, ShellCalls
<1> QED
  BY <1>1, <1>2, <1>3
  DEF Shell!EffectRuns, ShellInv, ShellTypes, ShellRemembered, ShellAsked,
      Shell!ShownAfterRefusal, Shell!Showing

LEMMA ShellMountInv ==
  ASSUME ShellInv, Shell!Mount
  PROVE  ShellInv'
<1> DEFINE rows == [status |-> "loading"]
           none == {}
<1>1. rows \in ShellList /\ rows.status # "success"
  BY DEF ShellList
<1>2. store \in ShellStore
  BY DEF ShellInv, ShellTypes
<1>3. PICK active \in Shell!Uids :
        /\ active = IF store.persisted # None THEN store.persisted
                    ELSE IF store.legacy # None THEN store.legacy ELSE DefaultFolder
        /\ page' = [list |-> rows, active |-> active, due |-> TRUE, open |-> FALSE]
  BY DEF Shell!Mount
<1> HIDE DEF rows, none
<1>4. page' \in ShellPage /\ page'.list = rows /\ page'.active = active
  BY <1>1, <1>3 DEF ShellPage
<1>5. calls' \in ShellCalls /\ calls'.lists = none
  BY DEF Shell!Mount, ShellCalls, none
<1>6. store' \in ShellStore /\ store'.persisted \in {active, None}
  <2> DEFINE kept == IF store.persisted = None THEN store.legacy ELSE store.persisted
  <2>1. kept \in Shell!Uids \cup {None} /\ store' = [store EXCEPT !.persisted = kept]
    BY <1>2 DEF Shell!Mount, ShellStore
  <2>2. kept \in {active, None}
    BY <1>3
  <2> HIDE DEF kept
  <2> QED
    BY <1>2, <2>1, <2>2 DEF ShellStore
<1> QED
  BY <1>1, <1>4, <1>5, <1>6
  DEF ShellInv, ShellTypes, ShellRemembered, ShellAsked, Shell!ShownAfterRefusal, Shell!Showing,
      none, Shell!Uids

LEMMA ShellChooseInv ==
  ASSUME Shell!Parameters, ShellInv, Shell!Choose \/ Shell!ToggleDropdown
  PROVE  ShellInv'
<1>1. CASE Shell!ToggleDropdown
  <2>1. page' \in ShellPage /\ page'.list = page.list /\ page'.active = page.active
    BY <1>1 DEF Shell!ToggleDropdown, ShellInv, ShellTypes, ShellPage
  <2> QED
    BY <1>1, <2>1
    DEF Shell!ToggleDropdown, ShellInv, ShellTypes, ShellRemembered, ShellAsked,
        Shell!ShownAfterRefusal, Shell!Showing
<1>2. CASE Shell!Choose
  <2>1. PICK f \in DOMAIN page.list.data :
          /\ page' = [page EXCEPT !.open = FALSE, !.active = f]
          /\ store' = [store EXCEPT !.persisted = f]
          /\ Shell!Showing /\ calls' = calls
    BY <1>2 DEF Shell!Choose
  <2>2. page.list.data \in ShellData
    BY <2>1 DEF ShellInv, ShellTypes, ShellPage, ShellList, Shell!Showing
  <2>3. f \in FoldersOf["shell"]
    BY <2>1, <2>2 DEF ShellData
  <2>4. page' \in ShellPage /\ page'.list = page.list /\ page'.active = f
    BY <2>1, <2>3 DEF ShellInv, ShellTypes, ShellPage, Shell!Uids
  <2>5. store' \in ShellStore /\ store'.persisted = f
    BY <2>1, <2>3 DEF ShellInv, ShellTypes, ShellStore, Shell!Uids
  <2> QED
    BY <2>1, <2>3, <2>4, <2>5
    DEF ShellInv, ShellTypes, ShellRemembered, ShellAsked, Shell!ShownAfterRefusal,
        Shell!Showing, Shell!Parameters
<1> QED
  BY <1>1, <1>2

LEMMA ShellRequestInv ==
  ASSUME ShellInv, Shell!Request
  PROVE  ShellInv'
<1>1. Shell!ActiveFolder \in DOMAIN page.list.data /\ Shell!Showing
  BY DEF Shell!Request, Shell!ActiveFolder
<1>2. page.list.data \in ShellData
  BY <1>1 DEF ShellInv, ShellTypes, ShellPage, ShellList, Shell!Showing
<1>3. Shell!ActiveFolder \in FoldersOf["shell"]
  BY <1>1, <1>2 DEF ShellData
<1>4. calls' \in ShellCalls /\ calls'.lists = calls.lists
  BY <1>3 DEF Shell!Request, ShellInv, ShellTypes, ShellCalls
<1> QED
  BY <1>4
  DEF Shell!Request, ShellInv, ShellTypes, ShellRemembered, ShellAsked, Shell!ShownAfterRefusal,
      Shell!Showing

LEMMA ShellEndsInv ==
  ASSUME ShellInv, NEW r \in calls.requests, Shell!Ends(r)
  PROVE  ShellInv'
<1> DEFINE rest == [calls EXCEPT !.requests = @ \ {r}]
           later == {[q EXCEPT !.since = FALSE] : q \in rest.lists}
           refused == [rest EXCEPT !.lists = later]
<1>1. rest \in ShellCalls /\ rest.lists = calls.lists
  BY DEF ShellInv, ShellTypes, ShellCalls
<1>2. \/ Shell!RefreshFolders(refused) /\ store' = store
      \/ calls' = rest /\ UNCHANGED <<page, store>>
  BY DEF Shell!Ends
<1> HIDE DEF rest
<1>3. later \subseteq ShellRequests
  BY <1>1 DEF ShellCalls, ShellRequests
<1> HIDE DEF later
<1>4. refused \in ShellCalls
  BY <1>1, <1>3 DEF ShellCalls
<1> HIDE DEF refused
<1>5. CASE Shell!RefreshFolders(refused) /\ store' = store
  BY <1>4, <1>5, ShellRefreshInv
<1>6. CASE calls' = rest /\ UNCHANGED <<page, store>>
  BY <1>1, <1>6
  DEF ShellInv, ShellTypes, ShellRemembered, ShellAsked, Shell!ShownAfterRefusal, Shell!Showing
<1> QED
  BY <1>2, <1>5, <1>6

LEMMA ShellGrafanaInv ==
  ASSUME ShellInv, Shell!GrafanaChanges
  PROVE  ShellInv'
<1>1. store \in ShellStore
  BY DEF ShellInv, ShellTypes
<1>2. PICK f \in FoldersOf["shell"] :
        \/ \E permission \in Shell!Permissions :
             store' = [store EXCEPT !.permission[f] = permission]
        \/ store' = [store EXCEPT !.folders = IF f \in @ THEN @ \ {f} ELSE @ \cup {f}]
  BY DEF Shell!GrafanaChanges
<1>3. store' \in ShellStore /\ store'.persisted = store.persisted
  <2>1. CASE store' = [store EXCEPT !.folders = IF f \in @ THEN @ \ {f} ELSE @ \cup {f}]
    BY <1>1, <2>1 DEF ShellStore
  <2>2. ASSUME NEW permission \in Shell!Permissions,
               store' = [store EXCEPT !.permission[f] = permission]
        PROVE  store' \in ShellStore /\ store'.persisted = store.persisted
    BY <1>1, <2>2 DEF ShellStore
  <2> QED
    BY <1>2, <2>1, <2>2
<1> QED
  BY <1>3
  DEF Shell!GrafanaChanges, ShellInv, ShellTypes, ShellRemembered, ShellAsked,
      Shell!ShownAfterRefusal, Shell!Showing

LEMMA ShellInitInv == Shell!Init => ShellInv
<1> SUFFICES ASSUME Shell!Init
             PROVE  ShellInv
  OBVIOUS
<1> DEFINE rows == [status |-> "loading"]
           none == {}
<1>1. rows \in ShellList /\ rows.status # "success"
  BY DEF ShellList
<1>2. /\ page = [list |-> rows, active |-> None, due |-> FALSE, open |-> FALSE]
      /\ calls = [lists |-> none, requests |-> none]
  BY DEF Shell!Init
<1> HIDE DEF rows
<1>3. page \in ShellPage /\ page.list = rows /\ page.active = None
  BY <1>1, <1>2 DEF ShellPage
<1>4. calls \in ShellCalls /\ calls.lists = {}
  BY <1>2 DEF ShellCalls
<1>5. store \in ShellStore
  BY DEF Shell!Init, ShellStore, Shell!Permissions
<1> QED
  BY <1>1, <1>3, <1>4, <1>5
  DEF ShellInv, ShellTypes, ShellRemembered, ShellAsked, Shell!ShownAfterRefusal, Shell!Showing

LEMMA ShellNextInv ==
  ASSUME Shell!Parameters
  PROVE  ShellInv /\ [Shell!Next]_(Shell!vars) => ShellInv'
<1> SUFFICES ASSUME ShellInv, [Shell!Next]_(Shell!vars)
             PROVE  ShellInv'
  OBVIOUS
<1>1. CASE Shell!Mount
  BY <1>1, ShellMountInv
<1>2. CASE Shell!EffectRuns
  BY <1>2, ShellEffectInv
<1>3. CASE Shell!ToggleDropdown \/ Shell!Choose
  BY <1>3, ShellChooseInv
<1>4. CASE Shell!PressRefresh
  <2>1. calls \in ShellCalls
    BY DEF ShellInv, ShellTypes
  <2> QED
    BY <1>4, <2>1, ShellRefreshInv DEF Shell!PressRefresh
<1>5. CASE Shell!Request
  BY <1>5, ShellRequestInv
<1>6. ASSUME NEW q \in calls.lists,
             Shell!SearchServed(q) \/ Shell!PermissionsServed(q) \/ Shell!FoldersAnswered(q)
                 \/ Shell!FoldersFail(q)
      PROVE  ShellInv'
  BY <1>6, ShellServedInv, ShellAnsweredInv
<1>7. ASSUME NEW r \in calls.requests, Shell!Ends(r)
      PROVE  ShellInv'
  BY <1>7, ShellEndsInv
<1>8. CASE Shell!GrafanaChanges
  BY <1>8, ShellGrafanaInv
<1>9. CASE UNCHANGED Shell!vars
  BY <1>9
  DEF Shell!vars, ShellInv, ShellTypes, ShellRemembered, ShellAsked, Shell!ShownAfterRefusal,
      Shell!Showing
<1> QED
  BY <1>1, <1>2, <1>3, <1>4, <1>5, <1>6, <1>7, <1>8, <1>9 DEF Shell!Next

LEMMA ShellAlwaysInv == ASSUME Shell!Parameters PROVE Shell!Spec => []ShellInv
  BY ShellInitInv, ShellNextInv, PTL DEF Shell!Spec

\* AppShellContext and ResourceClient: what is shown after a refusal for the active folder was
\* asked for since, in whatever order the requests are served and answered.
THEOREM ShellRefusalsAreHeeded ==
  ASSUME Shell!Parameters
  PROVE  Shell!Spec => []Shell!ShownAfterRefusal
  BY ShellAlwaysInv, PTL DEF ShellInv

\* A folder that is active is one the list shows, and the storage of the tab has no other.
THEOREM ShellActiveIsListed == ASSUME Shell!Parameters PROVE Shell!Spec => []Shell!TypeOK
<1>1. ShellInv => Shell!TypeOK
  <2> SUFFICES ASSUME ShellInv
               PROVE  Shell!TypeOK
    OBVIOUS
  <2>1. page \in ShellPage /\ calls \in ShellCalls /\ store \in ShellStore
    BY DEF ShellInv, ShellTypes
  <2>2. page.list.status \in {"loading", "success", "error"}
    BY <2>1 DEF ShellPage, ShellList
  <2>3. Shell!Showing =>
          /\ Shell!ActiveFolder = None => DOMAIN page.list.data = {}
          /\ store.persisted \in {page.active, None}
    BY DEF ShellInv, ShellRemembered, Shell!ActiveFolder
  <2> QED
    BY <2>1, <2>2, <2>3 DEF Shell!TypeOK, ShellPage, ShellCalls, ShellStore
<1> QED
  BY <1>1, ShellAlwaysInv, PTL

-----------------------------------------------------------------------------
(* The decisions on approvals, and the list of them, for any approvals,    *)
(* folders and requests.                                                   *)

GovernanceStatuses == {"pending", "approved", "rejected"}
GovernanceSeen == [id: Entries, version: Nat, status: GovernanceStatuses]

GovernanceList ==
  [status: {"loading", "error"}] \cup
  [status: {"success"}, query: Governance!Queries, data: SUBSET GovernanceSeen]

GovernanceEvent == [item: Entries, outcome: GovernanceStatuses]
GovernanceTable == [events: SUBSET GovernanceEvent, query: Governance!AuditQueries]

GovernancePage ==
  [at: {"approvals", "audit"}, folders: SUBSET FoldersOf["governance"],
   query: Governance!Queries, list: GovernanceList,
   timer: BOOLEAN, busy: Entries \cup {None}, rejecting: GovernanceSeen \cup {None},
   search: Governance!AuditQueries, table: GovernanceTable \cup {None}, failed: BOOLEAN]

GovernanceListRequest == [current: BOOLEAN, query: Governance!Queries, decided: BOOLEAN]
GovernanceDecision ==
  [item: GovernanceSeen, as: {"approved", "rejected"}, query: Governance!Queries]

GovernanceCalls ==
  [lists: SUBSET GovernanceListRequest, decision: GovernanceDecision \cup {None}, audit: BOOLEAN,
   export: [query: Governance!AuditQueries] \cup {None}]

GovernanceStore ==
  [resources: [Entries -> {"private", "gone", "shared"}],
   approvals: [Entries -> [status: GovernanceStatuses, version: Nat]],
   audit: SUBSET GovernanceEvent]

GovernanceTypes == page \in GovernancePage /\ calls \in GovernanceCalls /\ store \in GovernanceStore

\* The request whose answer will be shown is for what the page asks for.
GovernanceAnswering == \A q \in calls.lists : q.current => q.query = Governance!Asked

GovernanceInv ==
  GovernanceTypes /\ GovernanceAnswering /\ Governance!ListIsOfQuery /\ Governance!DecisionIsWhole

-----------------------------------------------------------------------------
\* Steps that leave the storage alone.
LEMMA GovernanceKeepsWhole ==
  ASSUME Governance!DecisionIsWhole, store' = store
  PROVE  Governance!DecisionIsWhole'
  BY DEF Governance!DecisionIsWhole

LEMMA GovernanceEffectiveIsQuery ==
  ASSUME NEW query \in Governance!Queries, NEW folders
  PROVE  Governance!Effective(query, folders) \in Governance!Queries
  BY DEF Governance!Effective, Governance!Queries

LEMMA GovernanceAskedIsQuery == ASSUME GovernanceTypes PROVE Governance!Asked \in Governance!Queries
  BY GovernanceEffectiveIsQuery DEF GovernanceTypes, GovernancePage, Governance!Asked

\* A step that keeps what the page asks for, its list and the requests for it.
LEMMA GovernanceKeepsList ==
  ASSUME GovernanceInv, GovernanceTypes', store' = store,
         page'.query = page.query, page'.folders = page.folders,
         page'.list = page.list \/ page'.list.status # "success",
         page'.at = page.at, page'.timer = page.timer, calls'.lists \subseteq calls.lists
  PROVE  GovernanceInv'
<1>1. Governance!Asked' = Governance!Asked
  BY DEF Governance!Asked
<1> QED
  BY <1>1, GovernanceKeepsWhole
  DEF GovernanceInv, GovernanceAnswering, Governance!ListIsOfQuery, Governance!Showing

LEMMA GovernanceRescopeInv ==
  ASSUME GovernanceInv, NEW query \in Governance!Queries,
         NEW folders \in SUBSET FoldersOf["governance"], Governance!Rescope(query, folders)
  PROVE  GovernanceInv'
<1> DEFINE next == [page EXCEPT !.query = query, !.folders = folders]
<1>1. /\ next \in GovernancePage /\ next.query = query /\ next.folders = folders
      /\ next.list = page.list /\ next.timer = page.timer /\ next.at = page.at
  BY DEF GovernanceInv, GovernanceTypes, GovernancePage
<1>2. CASE Governance!Effective(query, folders) = Governance!Asked
  <2>1. page' = next /\ calls' = calls /\ store' = store
    BY <1>2 DEF Governance!Rescope
  <2> HIDE DEF next
  <2>2. Governance!Asked' = Governance!Asked
    BY <1>1, <1>2, <2>1 DEF Governance!Asked
  <2> QED
    BY <1>1, <2>1, <2>2, GovernanceKeepsWhole
    DEF GovernanceInv, GovernanceTypes, GovernanceAnswering, Governance!ListIsOfQuery,
        Governance!Showing
<1>3. CASE Governance!Effective(query, folders) # Governance!Asked
  <2> DEFINE asking == Governance!Invalidated(calls.lists)
  <2>1. /\ page' = [next EXCEPT !.timer = TRUE, !.rejecting = None]
        /\ calls' = [calls EXCEPT !.lists = asking] /\ store' = store
    BY <1>3 DEF Governance!Rescope
  <2>2. asking \subseteq GovernanceListRequest /\ \A q \in asking : q.current = FALSE
    BY DEF Governance!Invalidated, GovernanceInv, GovernanceTypes, GovernanceCalls,
        GovernanceListRequest
  <2> HIDE DEF next, asking
  <2>3. page' \in GovernancePage /\ page'.timer = TRUE
    BY <1>1, <2>1 DEF GovernancePage
  <2>4. calls' \in GovernanceCalls /\ calls'.lists = asking
    BY <2>1, <2>2 DEF GovernanceInv, GovernanceTypes, GovernanceCalls
  <2> QED
    BY <2>1, <2>2, <2>3, <2>4, GovernanceKeepsWhole
    DEF GovernanceInv, GovernanceTypes, GovernanceAnswering, Governance!ListIsOfQuery,
        Governance!Showing
<1> QED
  BY <1>2, <1>3

LEMMA GovernanceOlderFacts ==
  ASSUME GovernanceTypes
  PROVE  Governance!Older(calls.lists) \subseteq GovernanceListRequest
         /\ \A q \in Governance!Older(calls.lists) : q.current = FALSE
  BY DEF Governance!Older, GovernanceTypes, GovernanceCalls, GovernanceListRequest

LEMMA GovernanceLoadApprovalsInv ==
  ASSUME GovernanceInv, Governance!LoadApprovals
  PROVE  GovernanceInv'
<1> DEFINE q == Governance!Request(Governance!Asked, FALSE)
           asking == Governance!Older(calls.lists) \cup {q}
<1>1. q \in GovernanceListRequest /\ q.query = Governance!Asked
  BY GovernanceAskedIsQuery DEF GovernanceInv, Governance!Request, GovernanceListRequest
<1>2. Governance!Older(calls.lists) \subseteq GovernanceListRequest
      /\ \A l \in Governance!Older(calls.lists) : l.current = FALSE
  BY GovernanceOlderFacts DEF GovernanceInv
<1>3. /\ page' = [page EXCEPT !.list = Governance!Loading, !.timer = FALSE]
      /\ calls' = [calls EXCEPT !.lists = asking] /\ store' = store
  BY DEF Governance!LoadApprovals
<1> HIDE DEF q
<1>4. asking \subseteq GovernanceListRequest
      /\ \A l \in asking : l.current => l.query = Governance!Asked
  BY <1>1, <1>2
<1> HIDE DEF asking
<1>5. Governance!Loading \in GovernanceList /\ Governance!Loading.status # "success"
  BY DEF Governance!Loading, GovernanceList
<1>6. /\ page' \in GovernancePage /\ page'.list = Governance!Loading /\ page'.query = page.query
      /\ page'.folders = page.folders /\ page'.at = page.at
  BY <1>3, <1>5 DEF GovernanceInv, GovernanceTypes, GovernancePage
<1>7. calls' \in GovernanceCalls /\ calls'.lists = asking /\ Governance!Asked' = Governance!Asked
  BY <1>3, <1>4, <1>6 DEF GovernanceInv, GovernanceTypes, GovernanceCalls, Governance!Asked
<1> QED
  BY <1>3, <1>4, <1>5, <1>6, <1>7, GovernanceKeepsWhole
  DEF GovernanceInv, GovernanceTypes, GovernanceAnswering, Governance!ListIsOfQuery,
      Governance!Showing

LEMMA GovernanceApprovalsAnsweredInv ==
  ASSUME GovernanceInv, NEW q, Governance!ApprovalsAnswered(q)
  PROVE  GovernanceInv'
<1> DEFINE found == {[id |-> i, version |-> store.approvals[i].version,
                      status |-> store.approvals[i].status] :
                        i \in {j \in Entries : Governance!Matches(j, q.query)}}
           showing == [status |-> "success", query |-> q.query, data |-> found]
<1>1. q \in GovernanceListRequest /\ q \in calls.lists
  BY DEF Governance!ApprovalsAnswered, GovernanceInv, GovernanceTypes, GovernanceCalls
<1>2. found \subseteq GovernanceSeen
  BY DEF GovernanceInv, GovernanceTypes, GovernanceStore, GovernanceSeen
<1>3. PICK answer \in {showing, Governance!Failed} :
        page' = [page EXCEPT !.list = IF q.current THEN answer ELSE @,
                             !.busy = IF q.decided THEN None ELSE @]
  BY DEF Governance!ApprovalsAnswered
<1> DEFINE rows == IF q.current THEN answer ELSE page.list
           busy == IF q.decided THEN None ELSE page.busy
<1>4. page' = [page EXCEPT !.list = rows, !.busy = busy]
  BY <1>3
<1>5. busy \in Entries \cup {None}
  BY DEF GovernanceInv, GovernanceTypes, GovernancePage
<1> HIDE DEF found
<1>6. rows \in GovernanceList
  BY <1>1, <1>2, <1>3
  DEF GovernanceInv, GovernanceTypes, GovernancePage, GovernanceList, GovernanceListRequest,
      Governance!Failed
<1>7. page.at = "approvals" /\ rows.status = "success" /\ ~page.timer
      => rows.query = Governance!Asked
  BY <1>1, <1>3
  DEF GovernanceInv, GovernanceAnswering, Governance!ListIsOfQuery, Governance!Showing,
      Governance!Failed
<1> HIDE DEF rows, busy
<1>8. /\ page' \in GovernancePage /\ page'.list = rows /\ page'.timer = page.timer
      /\ page'.query = page.query /\ page'.folders = page.folders /\ page'.at = page.at
  BY <1>4, <1>5, <1>6 DEF GovernanceInv, GovernanceTypes, GovernancePage
<1>9. calls' \in GovernanceCalls /\ calls'.lists = calls.lists \ {q} /\ store' = store
      /\ Governance!Asked' = Governance!Asked
  BY <1>8
  DEF Governance!ApprovalsAnswered, GovernanceInv, GovernanceTypes, GovernanceCalls,
      Governance!Asked
<1> QED
  BY <1>7, <1>8, <1>9, GovernanceKeepsWhole
  DEF GovernanceInv, GovernanceTypes, GovernanceAnswering, Governance!ListIsOfQuery,
      Governance!Showing

-----------------------------------------------------------------------------
(* Decisions.                                                              *)

LEMMA GovernanceDecideInv ==
  ASSUME GovernanceInv, NEW item \in GovernanceSeen, NEW as \in {"approved", "rejected"},
         Governance!Decide(item, as)
  PROVE  GovernanceInv'
<1> DEFINE d == [item |-> item, as |-> as, query |-> Governance!Asked]
<1>1. d \in GovernanceDecision /\ item.id \in Entries
  BY GovernanceAskedIsQuery DEF GovernanceInv, GovernanceDecision, GovernanceSeen
<1>2. page' = [page EXCEPT !.busy = item.id] /\ calls' = [calls EXCEPT !.decision = d]
      /\ store' = store
  BY DEF Governance!Decide
<1> HIDE DEF d
<1>3. /\ page' \in GovernancePage /\ page'.list = page.list /\ page'.timer = page.timer
      /\ page'.query = page.query /\ page'.folders = page.folders /\ page'.at = page.at
  BY <1>1, <1>2 DEF GovernanceInv, GovernanceTypes, GovernancePage
<1>4. calls' \in GovernanceCalls /\ calls'.lists = calls.lists
  BY <1>1, <1>2 DEF GovernanceInv, GovernanceTypes, GovernanceCalls
<1> QED
  BY <1>2, <1>3, <1>4, GovernanceKeepsList DEF GovernanceInv, GovernanceTypes

LEMMA GovernanceOnApprovalsInv ==
  ASSUME GovernanceInv, Governance!OnApprovals
  PROVE  GovernanceInv'
<1>1. Governance!Showing => page.list.data \subseteq GovernanceSeen
  BY DEF Governance!Showing, GovernanceInv, GovernanceTypes, GovernancePage, GovernanceList
<1>2. page.rejecting # None => page.rejecting \in GovernanceSeen
  BY DEF GovernanceInv, GovernanceTypes, GovernancePage
<1>3. ASSUME NEW item \in GovernanceSeen \cup {None}, page' = [page EXCEPT !.rejecting = item],
             UNCHANGED <<calls, store>>
      PROVE  GovernanceInv'
  <2>1. /\ page' \in GovernancePage /\ page'.list = page.list /\ page'.timer = page.timer
        /\ page'.query = page.query /\ page'.folders = page.folders /\ page'.at = page.at
    BY <1>3 DEF GovernanceInv, GovernanceTypes, GovernancePage
  <2> QED
    BY <1>3, <2>1, GovernanceKeepsList DEF GovernanceInv, GovernanceTypes
<1> QED
  BY <1>1, <1>2, <1>3, GovernanceDecideInv DEF Governance!OnApprovals

\* The keys a decision writes are the keys that change.
LEMMA GovernanceDecidedFacts ==
  ASSUME GovernanceTypes, NEW d \in GovernanceDecision, Governance!Acceptable(d),
         Governance!DecisionIsWhole
  PROVE  LET new == Governance!Decided(d)
         IN  /\ new \in GovernanceStore
             /\ \A i \in Entries :
                  new.resources[i] = "shared" <=> new.approvals[i].status = "approved"
             /\ new.audit = {[item |-> i, outcome |-> new.approvals[i].status] :
                               i \in {j \in Entries : new.approvals[j].status # "pending"}}
<1> DEFINE new == Governance!Decided(d)
           k == d.item.id
           now == [status |-> d.as, version |-> d.item.version + 1]
<1>1. k \in Entries /\ d.as \in {"approved", "rejected"} /\ d.item.version \in Nat
  BY DEF GovernanceDecision, GovernanceSeen
<1>2. /\ store.resources \in [Entries -> {"private", "gone", "shared"}]
      /\ store.approvals \in [Entries -> [status: GovernanceStatuses, version: Nat]]
      /\ store.audit \subseteq GovernanceEvent
  BY DEF GovernanceTypes, GovernanceStore
<1>3. now \in [status: GovernanceStatuses, version: Nat] /\ now.status = d.as
  BY <1>1 DEF GovernanceStatuses
<1>4. /\ new.resources = IF d.as = "approved" THEN [store.resources EXCEPT ![k] = "shared"]
                         ELSE store.resources
      /\ new.approvals = [store.approvals EXCEPT ![k] = now]
      /\ new.audit = store.audit \cup {[item |-> k, outcome |-> d.as]}
      /\ new = [resources |-> new.resources, approvals |-> new.approvals, audit |-> new.audit]
  BY DEF Governance!Decided
<1> HIDE DEF now
<1>5. /\ new.resources \in [Entries -> {"private", "gone", "shared"}]
      /\ new.approvals \in [Entries -> [status: GovernanceStatuses, version: Nat]]
      /\ new.audit \subseteq GovernanceEvent
  BY <1>1, <1>2, <1>3, <1>4 DEF GovernanceEvent, GovernanceStatuses
<1>6. /\ new.approvals[k].status = d.as
      /\ \A i \in Entries \ {k} : new.approvals[i] = store.approvals[i]
      /\ \A i \in Entries \ {k} : new.resources[i] = store.resources[i]
      /\ new.resources[k] = IF d.as = "approved" THEN "shared" ELSE store.resources[k]
  BY <1>1, <1>2, <1>3, <1>4
<1> HIDE DEF new
<1>7. new \in GovernanceStore
  BY <1>4, <1>5 DEF GovernanceStore
<1>8. store.approvals[k].status = "pending" /\ store.resources[k] # "shared"
  BY <1>1 DEF Governance!Acceptable, Governance!DecisionIsWhole
<1>9. \A i \in Entries : new.resources[i] = "shared" <=> new.approvals[i].status = "approved"
  BY <1>1, <1>6, <1>8 DEF Governance!DecisionIsWhole
<1>10. new.audit = {[item |-> i, outcome |-> new.approvals[i].status] :
                      i \in {j \in Entries : new.approvals[j].status # "pending"}}
  BY <1>1, <1>4, <1>6, <1>8 DEF Governance!DecisionIsWhole
<1> QED
  BY <1>7, <1>9, <1>10 DEF new

LEMMA GovernanceDecisionAnsweredInv ==
  ASSUME GovernanceInv, Governance!DecisionAnswered
  PROVE  GovernanceInv'
<1> DEFINE d == calls.decision
           q == Governance!Request(Governance!Asked, TRUE)
           asking == Governance!Older(calls.lists) \cup {q}
           rejecting == IF d.as = "rejected" THEN None ELSE page.rejecting
<1>1. d \in GovernanceDecision /\ Governance!Acceptable(d) /\ store' = Governance!Decided(d)
  BY DEF Governance!DecisionAnswered, GovernanceInv, GovernanceTypes, GovernanceCalls
<1>2. store' \in GovernanceStore /\ Governance!DecisionIsWhole'
  BY <1>1, GovernanceDecidedFacts DEF GovernanceInv, Governance!DecisionIsWhole
<1>3. q \in GovernanceListRequest /\ q.query = Governance!Asked
  BY GovernanceAskedIsQuery DEF GovernanceInv, Governance!Request, GovernanceListRequest
<1>4. Governance!Older(calls.lists) \subseteq GovernanceListRequest
      /\ \A l \in Governance!Older(calls.lists) : l.current = FALSE
  BY GovernanceOlderFacts DEF GovernanceInv
<1>5. /\ page' = [page EXCEPT !.list = Governance!Loading, !.rejecting = rejecting]
      /\ calls' = [calls EXCEPT !.decision = None, !.lists = asking]
  BY DEF Governance!DecisionAnswered, Governance!Reload
<1> HIDE DEF q
<1>6. asking \subseteq GovernanceListRequest
      /\ \A l \in asking : l.current => l.query = Governance!Asked
  BY <1>3, <1>4
<1>7. Governance!Loading \in GovernanceList /\ Governance!Loading.status # "success"
      /\ rejecting \in GovernanceSeen \cup {None}
  BY DEF Governance!Loading, GovernanceList, GovernanceInv, GovernanceTypes, GovernancePage
<1> HIDE DEF asking, rejecting
<1>8. /\ page' \in GovernancePage /\ page'.list = Governance!Loading /\ page'.query = page.query
      /\ page'.folders = page.folders /\ page'.at = page.at
  BY <1>5, <1>7 DEF GovernanceInv, GovernanceTypes, GovernancePage
<1>9. calls' \in GovernanceCalls /\ calls'.lists = asking /\ Governance!Asked' = Governance!Asked
  BY <1>5, <1>6, <1>8 DEF GovernanceInv, GovernanceTypes, GovernanceCalls, Governance!Asked
<1> QED
  BY <1>2, <1>6, <1>7, <1>8, <1>9
  DEF GovernanceInv, GovernanceTypes, GovernanceAnswering, Governance!ListIsOfQuery,
      Governance!Showing

\* Putting back the old values of the keys a decision writes leaves nothing of it.
LEMMA GovernanceRestoredIsOld ==
  ASSUME GovernanceTypes, NEW d \in GovernanceDecision, NEW n \in 0 .. 2
  PROVE  Governance!Restored(Governance!WrittenUpTo(d, n), d) = store
<1> DEFINE keys == {Governance!KeysOf(d)[k] : k \in DOMAIN Governance!KeysOf(d)}
           some == {Governance!KeysOf(d)[k] : k \in 1 .. n}
           now == Governance!WrittenUpTo(d, n)
           old == Governance!Restored(now, d)
<1>1. store \in GovernanceStore
  BY DEF GovernanceTypes
<1>2. some \subseteq keys
  <2>1. CASE d.as = "approved"
    <3>1. Governance!KeysOf(d) = <<"resources", "approvals", "audit">>
      BY <2>1 DEF Governance!KeysOf
    <3>2. 1 .. n \subseteq DOMAIN Governance!KeysOf(d)
      BY <3>1
    <3> QED
      BY <3>2
  <2>2. CASE d.as # "approved"
    <3>1. Governance!KeysOf(d) = <<"approvals", "audit">> /\ DOMAIN Governance!KeysOf(d) = 1 .. 2
      BY <2>2 DEF Governance!KeysOf
    <3>2. 1 .. n \subseteq DOMAIN Governance!KeysOf(d)
      BY <3>1
    <3> QED
      BY <3>2
  <2> QED
    BY <2>1, <2>2
<1>3. now =
      [key \in DOMAIN store |-> IF key \in some THEN Governance!Decided(d)[key] ELSE store[key]]
  BY DEF Governance!WrittenUpTo
<1>4. old = [key \in DOMAIN now |-> IF key \in keys THEN store[key] ELSE now[key]]
  BY DEF Governance!Restored
<1> HIDE DEF now, keys, some, old
<1>5. old = [key \in DOMAIN store |-> store[key]]
  BY <1>2, <1>3, <1>4
<1>6. store = [key \in DOMAIN store |-> store[key]]
  BY <1>1 DEF GovernanceStore
<1> QED
  BY <1>5, <1>6 DEF old, now

LEMMA GovernanceDecisionFailsInv ==
  ASSUME GovernanceInv, Governance!DecisionFails
  PROVE  GovernanceInv'
<1>1. store' = store
  <2>1. CASE UNCHANGED store
    BY <2>1
  <2>2. ASSUME NEW n \in 0 .. 2,
               store' =
                 Governance!Restored(Governance!WrittenUpTo(calls.decision, n), calls.decision)
        PROVE  store' = store
    <3>1. calls.decision \in GovernanceDecision
      BY DEF Governance!DecisionFails, GovernanceInv, GovernanceTypes, GovernanceCalls
    <3> QED
      BY <2>2, <3>1, GovernanceRestoredIsOld DEF GovernanceInv
  <2> QED
    BY <2>1, <2>2 DEF Governance!DecisionFails
<1>2. /\ page' \in GovernancePage /\ page'.list = page.list /\ page'.timer = page.timer
      /\ page'.query = page.query /\ page'.folders = page.folders /\ page'.at = page.at
  BY DEF Governance!DecisionFails, GovernanceInv, GovernanceTypes, GovernancePage
<1>3. calls' \in GovernanceCalls /\ calls'.lists = calls.lists
  BY DEF Governance!DecisionFails, GovernanceInv, GovernanceTypes, GovernanceCalls
<1> QED
  BY <1>1, <1>2, <1>3, GovernanceKeepsList DEF GovernanceInv, GovernanceTypes

-----------------------------------------------------------------------------
(* The audit log, and the whole.                                           *)

LEMMA GovernanceAuditInv ==
  ASSUME GovernanceInv,
         \/ Governance!SelectAudit \/ Governance!LoadAudit \/ Governance!AuditAnswered
         \/ Governance!ExportCsv \/ Governance!ExportAnswered
  PROVE  GovernanceInv'
<1>1. page' \in GovernancePage /\ page'.query = page.query /\ page'.folders = page.folders
      /\ page'.at = page.at /\ page'.list = page.list
      /\ (page'.timer # page.timer => page.at = "audit")
  <2>1. CASE Governance!SelectAudit
    BY <2>1 DEF Governance!SelectAudit, GovernanceInv, GovernanceTypes, GovernancePage
  <2>2. CASE Governance!LoadAudit
    BY <2>2 DEF Governance!LoadAudit, GovernanceInv, GovernanceTypes, GovernancePage
  <2>3. CASE Governance!AuditAnswered
    <3> DEFINE table == [events |-> Governance!Found(page.search), query |-> page.search]
    <3>1. table \in GovernanceTable
      BY
      DEF Governance!Found, GovernanceTable, GovernanceInv, GovernanceTypes, GovernancePage,
          GovernanceStore
    <3>2. \/ page' = [page EXCEPT !.table = table, !.failed = FALSE]
          \/ page' = [page EXCEPT !.failed = TRUE]
      BY <2>3 DEF Governance!AuditAnswered
    <3> HIDE DEF table
    <3> QED
      BY <3>1, <3>2 DEF GovernanceInv, GovernanceTypes, GovernancePage
  <2>4. CASE Governance!ExportCsv
    BY <2>4 DEF Governance!ExportCsv, GovernanceInv, GovernanceTypes, GovernancePage
  <2>5. CASE Governance!ExportAnswered
    BY <2>5 DEF Governance!ExportAnswered, GovernanceInv, GovernanceTypes, GovernancePage
  <2> QED
    BY <2>1, <2>2, <2>3, <2>4, <2>5
<1>2. calls' \in GovernanceCalls /\ calls'.lists = calls.lists
  <2>1. CASE Governance!SelectAudit \/ Governance!LoadAudit \/ Governance!AuditAnswered
    BY <2>1
    DEF Governance!SelectAudit, Governance!LoadAudit, Governance!AuditAnswered, GovernanceInv,
        GovernanceTypes, GovernanceCalls
  <2>2. CASE Governance!ExportCsv \/ Governance!ExportAnswered
    <3> DEFINE export == IF Governance!ExportCsv THEN [query |-> page.search] ELSE None
    <3>1. export \in [query: Governance!AuditQueries] \cup {None}
      BY DEF GovernanceInv, GovernanceTypes, GovernancePage
    <3>2. calls' = [calls EXCEPT !.export = export]
      BY <2>2 DEF Governance!ExportCsv, Governance!ExportAnswered
    <3> HIDE DEF export
    <3> QED
      BY <3>1, <3>2 DEF GovernanceInv, GovernanceTypes, GovernanceCalls
  <2> QED
    BY <2>1, <2>2
<1>3. store' = store
  BY DEF Governance!SelectAudit, Governance!LoadAudit, Governance!AuditAnswered,
      Governance!ExportCsv, Governance!ExportAnswered
<1>4. Governance!Asked' = Governance!Asked
  BY <1>1 DEF Governance!Asked
<1> QED
  BY <1>1, <1>2, <1>3, <1>4, GovernanceKeepsWhole
  DEF GovernanceInv, GovernanceTypes, GovernanceAnswering, Governance!ListIsOfQuery,
      Governance!Showing

\* A page that is mounted.
LEMMA GovernanceFreshFacts ==
  ASSUME NEW at \in {"approvals", "audit"}
  PROVE  Governance!Fresh(at) \in GovernancePage
         /\ Governance!Fresh(at).list.status # "success" /\ Governance!NoCalls \in GovernanceCalls
         /\ Governance!NoCalls.lists = {}
<1>1. Governance!Loading \in GovernanceList /\ Governance!Loading.status # "success"
  BY DEF Governance!Loading, GovernanceList
<1> DEFINE query == [status |-> "pending", folder |-> None]
           none == {}
<1>2. query \in Governance!Queries /\ None \in Governance!AuditQueries
  BY DEF Governance!Queries, Governance!AuditQueries
<1>3. none \in SUBSET GovernanceListRequest
  BY DEF none
<1>4. /\ Governance!Fresh(at) = [at |-> at, folders |-> FoldersOf["governance"],
                              query |-> query, list |-> Governance!Loading,
                              timer |-> TRUE, busy |-> None, rejecting |-> None, search |-> None,
                              table |-> None, failed |-> FALSE]
      /\ Governance!NoCalls = [lists |-> none, decision |-> None, audit |-> FALSE, export |-> None]
  BY DEF Governance!Fresh, Governance!NoCalls
<1> HIDE DEF query
<1>5. Governance!Fresh(at) \in GovernancePage /\ Governance!Fresh(at).list = Governance!Loading
  BY <1>1, <1>2, <1>4 DEF GovernancePage
<1>6. Governance!NoCalls \in GovernanceCalls /\ Governance!NoCalls.lists = {}
  BY <1>3, <1>4 DEF GovernanceCalls
<1> QED
  BY <1>1, <1>5, <1>6

LEMMA GovernanceInitInv == Governance!Init => GovernanceInv
<1> SUFFICES ASSUME Governance!Init
             PROVE  GovernanceInv
  OBVIOUS
<1>1. page \in GovernancePage /\ page.list.status # "success" /\ calls \in GovernanceCalls
      /\ calls.lists = {}
  BY GovernanceFreshFacts DEF Governance!Init
<1>2. PICK resources \in [Entries -> {"private", "gone"}] :
        store = [resources |-> resources,
                 approvals |-> [i \in Entries |-> [status |-> "pending", version |-> 1]],
                 audit |-> {}]
  BY DEF Governance!Init
<1>3. store \in GovernanceStore /\ Governance!DecisionIsWhole
  BY <1>2 DEF GovernanceStore, GovernanceStatuses, Governance!DecisionIsWhole
<1> QED
  BY <1>1, <1>3
  DEF GovernanceInv, GovernanceTypes, GovernanceAnswering, Governance!ListIsOfQuery,
      Governance!Showing

LEMMA GovernanceNextInv == GovernanceInv /\ [Governance!Next]_(Governance!vars) => GovernanceInv'
<1> SUFFICES ASSUME GovernanceInv, [Governance!Next]_(Governance!vars)
             PROVE  GovernanceInv'
  OBVIOUS
<1>1. CASE Governance!SelectQuery
  <2>1. page.folders \in SUBSET FoldersOf["governance"]
    BY DEF GovernanceInv, GovernanceTypes, GovernancePage
  <2> QED
    BY <1>1, <2>1, GovernanceRescopeInv DEF Governance!SelectQuery
<1>2. CASE Governance!FoldersChange
  <2>1. page.query \in Governance!Queries
    BY DEF GovernanceInv, GovernanceTypes, GovernancePage
  <2> QED
    BY <1>2, <2>1, GovernanceRescopeInv DEF Governance!FoldersChange
<1>3. CASE Governance!LoadApprovals
  BY <1>3, GovernanceLoadApprovalsInv
<1>4. ASSUME NEW q \in calls.lists, Governance!ApprovalsAnswered(q)
      PROVE  GovernanceInv'
  BY <1>4, GovernanceApprovalsAnsweredInv
<1>5. CASE Governance!OnApprovals
  BY <1>5, GovernanceOnApprovalsInv
<1>6. CASE Governance!DecisionAnswered
  BY <1>6, GovernanceDecisionAnsweredInv
<1>7. CASE Governance!DecisionFails
  BY <1>7, GovernanceDecisionFailsInv
<1>8. CASE Governance!SelectAudit \/ Governance!LoadAudit \/ Governance!AuditAnswered
           \/ Governance!ExportCsv \/ Governance!ExportAnswered
  BY <1>8, GovernanceAuditInv
<1>9. CASE Governance!GoTo
  <2>1. page' \in GovernancePage /\ page'.list.status # "success"
        /\ calls' \in GovernanceCalls /\ calls'.lists = {}
    BY <1>9, GovernanceFreshFacts DEF Governance!GoTo
  <2> QED
    BY <1>9, <2>1, GovernanceKeepsWhole
    DEF Governance!GoTo, GovernanceInv, GovernanceTypes, GovernanceAnswering,
        Governance!ListIsOfQuery, Governance!Showing
<1>10. CASE UNCHANGED Governance!vars
  BY <1>10
  DEF Governance!vars, GovernanceInv, GovernanceTypes, GovernanceAnswering,
      Governance!ListIsOfQuery, Governance!Showing, Governance!Asked, Governance!DecisionIsWhole
<1> QED
  BY <1>1, <1>2, <1>3, <1>4, <1>5, <1>6, <1>7, <1>8, <1>9, <1>10 DEF Governance!Next

LEMMA GovernanceAlwaysInv == Governance!Spec => []GovernanceInv
  BY GovernanceInitInv, GovernanceNextInv, PTL DEF Governance!Spec

\* fixtureApprovalGateway: wherever a decision is refused or the storage is full, the resource is
\* shared just when its approval was approved, and the audit log has just what was decided.
THEOREM GovernanceDecisionsAreWhole == Governance!Spec => []Governance!DecisionIsWhole
  BY GovernanceAlwaysInv, PTL DEF GovernanceInv

\* ApprovalsPage: the list that is shown is the one of the filters there are now.
THEOREM GovernanceListsAreOfQuery == Governance!Spec => []Governance!ListIsOfQuery
  BY GovernanceAlwaysInv, PTL DEF GovernanceInv

\* A decision is under way only for the item that is busy, and the list that is asked for after it
\* is waited for with the item still busy: so there is one of the two, or none.
GovernanceBusy ==
  /\ calls.decision # None => page.busy = calls.decision.item.id
  /\ \A q \in calls.lists : q.decided => page.busy # None /\ calls.decision = None
  /\ \A q, r \in calls.lists : q.decided /\ r.decided => q = r

GovernanceAged(q) == [q EXCEPT !.current = FALSE]

LEMMA GovernanceAgedFew ==
  ASSUME GovernanceTypes, GovernanceBusy, NEW asking,
         \A q \in asking : q.decided => \E p \in calls.lists : q = GovernanceAged(p)
  PROVE  /\ \A q \in asking : q.decided => page.busy # None /\ calls.decision = None
         /\ \A q, r \in asking : q.decided /\ r.decided => q = r
<1>1. \A p \in calls.lists : GovernanceAged(p).decided = p.decided
  BY DEF GovernanceAged, GovernanceTypes, GovernanceCalls, GovernanceListRequest
<1> QED
  BY <1>1 DEF GovernanceBusy

LEMMA GovernanceQueryBusy ==
  ASSUME GovernanceTypes, GovernanceBusy,
         \/ \E query, folders : Governance!Rescope(query, folders)
         \/ Governance!LoadApprovals
  PROVE  GovernanceBusy'
<1>1. page'.busy = page.busy /\ calls'.decision = calls.decision
  BY DEF Governance!Rescope, Governance!LoadApprovals, GovernanceTypes, GovernancePage,
         GovernanceCalls
<1>2. CASE calls'.lists = calls.lists
  BY <1>1, <1>2 DEF GovernanceBusy
<1>3. CASE calls'.lists # calls.lists
  <2>1. PICK more : /\ calls'.lists \subseteq Governance!Older(calls.lists) \cup {more}
                    /\ more \in calls'.lists => ~more.decided \/ more \in Governance!Older(calls.lists)
    <3>1. CASE Governance!LoadApprovals
      <4> DEFINE q == Governance!Request(Governance!Asked, FALSE)
      <4>1. calls'.lists = Governance!Older(calls.lists) \cup {q} /\ ~q.decided
        BY <3>1 DEF Governance!LoadApprovals, GovernanceTypes, GovernanceCalls, Governance!Request
      <4> QED
        BY <4>1
    <3>2. CASE \E query, folders : Governance!Rescope(query, folders)
      <4>1. calls'.lists = Governance!Invalidated(calls.lists)
        BY <1>3, <3>2 DEF Governance!Rescope, GovernanceTypes, GovernanceCalls
      <4>2. Governance!Invalidated(calls.lists) \subseteq Governance!Older(calls.lists)
        BY DEF Governance!Invalidated, Governance!Older
      <4> QED
        BY <4>1, <4>2
    <3> QED
      BY <3>1, <3>2
  <2>2. \A q \in calls'.lists : q.decided => \E p \in calls.lists : q = GovernanceAged(p)
    BY <2>1 DEF Governance!Older, GovernanceAged
  <2>3. /\ \A q \in calls'.lists : q.decided => page.busy # None /\ calls.decision = None
        /\ \A q, r \in calls'.lists : q.decided /\ r.decided => q = r
    BY <2>2, GovernanceAgedFew
  <2> QED
    BY <1>1, <2>3 DEF GovernanceBusy
<1> QED
  BY <1>2, <1>3

LEMMA GovernanceDecideBusy ==
  ASSUME GovernanceTypes, GovernanceBusy, Governance!OnApprovals
  PROVE  GovernanceBusy'
<1>1. CASE page'.busy = page.busy /\ calls' = calls
  BY <1>1 DEF GovernanceBusy
<1>2. ASSUME NEW item, NEW as, Governance!Decide(item, as)
      PROVE  GovernanceBusy'
  <2> DEFINE d == [item |-> item, as |-> as, query |-> Governance!Asked]
  <2>1. /\ page.busy = None /\ page' = [page EXCEPT !.busy = item.id]
        /\ calls' = [calls EXCEPT !.decision = d] /\ d.item = item
    BY <1>2 DEF Governance!Decide, Governance!MayDecide
  <2> HIDE DEF d
  <2>2. page'.busy = item.id /\ calls'.decision = d /\ calls'.lists = calls.lists
    BY <2>1 DEF GovernanceTypes, GovernancePage, GovernanceCalls
  <2>3. \A q \in calls.lists : ~q.decided
    BY <2>1 DEF GovernanceBusy
  <2> QED
    BY <2>1, <2>2, <2>3 DEF GovernanceBusy
<1>3. \/ page'.busy = page.busy /\ calls' = calls
      \/ \E item, as : Governance!Decide(item, as)
  BY DEF Governance!OnApprovals, GovernanceTypes, GovernancePage
<1> QED
  BY <1>1, <1>2, <1>3

LEMMA GovernanceAnswerBusy ==
  ASSUME Governance!Parameters, GovernanceTypes, GovernanceBusy,
         \/ \E q \in calls.lists : Governance!ApprovalsAnswered(q)
         \/ Governance!DecisionAnswered \/ Governance!DecisionFails
  PROVE  GovernanceBusy'
<1>1. ASSUME NEW q \in calls.lists, Governance!ApprovalsAnswered(q)
      PROVE  GovernanceBusy'
  <2>1. /\ calls'.lists = calls.lists \ {q} /\ calls'.decision = calls.decision
        /\ page'.busy = (IF q.decided THEN None ELSE page.busy)
    BY <1>1 DEF Governance!ApprovalsAnswered, GovernanceTypes, GovernancePage, GovernanceCalls
  <2> QED
    BY <2>1 DEF GovernanceBusy
<1>2. CASE Governance!DecisionAnswered
  <2> DEFINE more == Governance!Request(Governance!Reload(calls.decision), TRUE)
  <2>1. /\ calls.decision # None /\ calls'.decision = None /\ page'.busy = page.busy
        /\ calls'.lists = Governance!Older(calls.lists) \cup {more}
    BY <1>2 DEF Governance!DecisionAnswered, GovernanceTypes, GovernancePage, GovernanceCalls
  <2>2. page.busy = calls.decision.item.id /\ page.busy # None
    BY <2>1
    DEF GovernanceBusy, GovernanceTypes, GovernanceCalls, GovernanceDecision, GovernanceSeen,
        Governance!Parameters
  <2>3. \A q \in calls.lists : ~q.decided
    BY <2>1 DEF GovernanceBusy
  <2>4. \A q \in Governance!Older(calls.lists) : ~q.decided
    BY <2>3 DEF Governance!Older, GovernanceTypes, GovernanceCalls, GovernanceListRequest
  <2> HIDE DEF more
  <2> QED
    BY <2>1, <2>2, <2>4 DEF GovernanceBusy
<1>3. CASE Governance!DecisionFails
  <2>1. /\ calls.decision # None /\ calls'.decision = None /\ calls'.lists = calls.lists
    BY <1>3 DEF Governance!DecisionFails, GovernanceTypes, GovernanceCalls
  <2> QED
    BY <2>1 DEF GovernanceBusy
<1> QED
  BY <1>1, <1>2, <1>3

LEMMA GovernanceBusyInv ==
  ASSUME Governance!Parameters
  PROVE  GovernanceTypes /\ GovernanceBusy /\ [Governance!Next]_(Governance!vars) => GovernanceBusy'
<1> SUFFICES ASSUME GovernanceTypes, GovernanceBusy, [Governance!Next]_(Governance!vars)
             PROVE  GovernanceBusy'
  OBVIOUS
<1>1. CASE Governance!SelectQuery \/ Governance!FoldersChange \/ Governance!LoadApprovals
  BY <1>1, GovernanceQueryBusy DEF Governance!SelectQuery, Governance!FoldersChange
<1>2. CASE Governance!SelectAudit \/ Governance!LoadAudit \/ Governance!AuditAnswered
           \/ Governance!ExportCsv \/ Governance!ExportAnswered
  <2>1. page'.busy = page.busy /\ calls'.decision = calls.decision /\ calls'.lists = calls.lists
    BY <1>2 DEF Governance!SelectAudit, Governance!LoadAudit, Governance!AuditAnswered,
                Governance!ExportCsv, Governance!ExportAnswered, GovernanceTypes, GovernancePage,
                GovernanceCalls
  <2> QED
    BY <2>1 DEF GovernanceBusy
<1>3. CASE Governance!GoTo
  BY <1>3 DEF Governance!GoTo, Governance!NoCalls, GovernanceBusy
<1>4. CASE UNCHANGED Governance!vars
  BY <1>4 DEF Governance!vars, GovernanceBusy
<1> QED
  BY <1>1, <1>2, <1>3, <1>4, GovernanceDecideBusy, GovernanceAnswerBusy DEF Governance!Next

\* ApprovalsPage: while a decision is under way, the item it is about is the busy one.
THEOREM GovernanceDecidesOneItem ==
  ASSUME Governance!Parameters
  PROVE  Governance!Spec => []Governance!TypeOK
<1>1. Governance!Init => GovernanceBusy
  BY DEF Governance!Init, Governance!NoCalls, GovernanceBusy
<1>2. GovernanceInv => GovernanceTypes
  BY DEF GovernanceInv
<1>3. GovernanceTypes /\ GovernanceBusy => Governance!TypeOK
  BY DEF GovernanceTypes, GovernancePage, GovernanceCalls, GovernanceStore, GovernanceList,
         GovernanceStatuses, GovernanceBusy, Governance!TypeOK
<1> QED
  BY <1>1, <1>2, <1>3, GovernanceAlwaysInv, GovernanceBusyInv, PTL DEF Governance!Spec

-----------------------------------------------------------------------------
(* The panes of the workbench, for any widths.                             *)

FrameWidths == [Frame!Handles -> Widths.least..Widths.greatest]
FrameDrags == [start: Widths.least..Widths.greatest, current: Widths.least..Widths.greatest]

FramePage ==
  [opened: BOOLEAN, history: BOOLEAN, compact: BOOLEAN \cup {None}, widths: FrameWidths,
   drag: [Frame!Handles -> FrameDrags \cup {None}], saving: BOOLEAN]

FrameInv ==
  /\ page \in FramePage
  /\ store \in [Frame!Handles -> Int \cup {None}]
  /\ \A h \in Frame!Handles : page.drag[h] # None => Frame!Shown(h)
  /\ calls = {}

LEMMA FrameReadIsBounded ==
  ASSUME Frame!Parameters, NEW kept \in [Frame!Handles -> Int \cup {None}]
  PROVE  Frame!ReadSplitLayout(kept) \in FrameWidths
<1>1. \A w \in Int \cup {None} : Frame!BoundedWidth(w) \in Widths.least..Widths.greatest
  BY DEF Frame!Parameters, Frame!BoundedWidth, Frame!Clamp
<1> QED
  BY <1>1 DEF Frame!ReadSplitLayout, FrameWidths

LEMMA FrameStores ==
  ASSUME Frame!Parameters, FrameInv, NEW layout \in FrameWidths, Frame!PersistSplitLayout(layout)
  PROVE  store' \in [Frame!Handles -> Int \cup {None}]
<1>1. layout \in [Frame!Handles -> Int \cup {None}]
  BY DEF FrameWidths, Frame!Parameters
<1> QED
  BY <1>1 DEF FrameInv, Frame!PersistSplitLayout

LEMMA FrameNewPage ==
  ASSUME NEW widths \in FrameWidths
  PROVE  /\ Frame!NewPage(widths) \in FramePage
         /\ \A h \in Frame!Handles : Frame!NewPage(widths).drag[h] = None
  BY DEF Frame!NewPage, FramePage

\* A pane is hidden, and its handle let go.
LEMMA FrameUndragged ==
  ASSUME FrameInv, NEW p \in FramePage, page' = Frame!Undragged(p), p.drag = page.drag,
         UNCHANGED <<calls, store>>
  PROVE  FrameInv'
<1> DEFINE d == [h \in Frame!Handles |->
                   IF (h = "history" /\ ~p.history) \/ (h = "conversation" /\ ~p.opened)
                   THEN None ELSE p.drag[h]]
<1>1. page' = [p EXCEPT !.drag = d]
  BY DEF Frame!Undragged
<1>2. d \in [Frame!Handles -> FrameDrags \cup {None}]
  BY DEF FramePage
<1>3. \A h \in Frame!Handles :
        d[h] # None => (h = "history" => p.history) /\ (h = "conversation" => p.opened)
  OBVIOUS
<1> HIDE DEF d
<1>4. page' \in FramePage /\ page'.drag = d /\ page'.history = p.history /\ page'.opened = p.opened
  BY <1>1, <1>2 DEF FramePage
<1>5. \A h \in Frame!Handles : page'.drag[h] # None => Frame!Shown(h)'
  BY <1>3, <1>4 DEF Frame!Shown, Frame!Handles
<1> QED
  BY <1>4, <1>5 DEF FrameInv

LEMMA FramePanesInv ==
  ASSUME FrameInv, Frame!ToggleHistory \/ Frame!Measure \/ Frame!SessionOpens
  PROVE  FrameInv'
<1>1. CASE Frame!ToggleHistory
  <2> DEFINE p == [page EXCEPT !.history = ~@]
  <2>1. p \in FramePage /\ p.drag = page.drag
    BY DEF FrameInv, FramePage
  <2>2. page' = Frame!Undragged(p) /\ UNCHANGED <<calls, store>>
    BY <1>1 DEF Frame!ToggleHistory
  <2> QED
    BY <2>1, <2>2, FrameUndragged
<1>2. CASE Frame!Measure
  <2>1. PICK compact \in BOOLEAN :
          page' = Frame!Undragged([page EXCEPT !.compact = compact, !.history = ~compact])
    BY <1>2 DEF Frame!Measure
  <2> DEFINE p == [page EXCEPT !.compact = compact, !.history = ~compact]
  <2>2. p \in FramePage /\ p.drag = page.drag
    BY DEF FrameInv, FramePage
  <2>3. page' = Frame!Undragged(p) /\ UNCHANGED <<calls, store>>
    BY <1>2, <2>1 DEF Frame!Measure
  <2> QED
    BY <2>2, <2>3, FrameUndragged
<1>3. CASE Frame!SessionOpens
  <2> DEFINE p == [page EXCEPT !.opened = ~@]
  <2>1. p \in FramePage /\ p.drag = page.drag
    BY DEF FrameInv, FramePage
  <2>2. page' = Frame!Undragged(p) /\ UNCHANGED <<calls, store>>
    BY <1>3 DEF Frame!SessionOpens
  <2> QED
    BY <2>1, <2>2, FrameUndragged
<1> QED
  BY <1>1, <1>2, <1>3

\* A width changes, which may be of a handle that is dragged.
LEMMA FrameChanged ==
  ASSUME FrameInv, NEW h \in Frame!Handles, NEW w \in Widths.least..Widths.greatest,
         NEW p \in FramePage, \A g \in Frame!Handles : p.drag[g] # None => page.drag[g] # None,
         p.history = page.history, p.opened = page.opened,
         page' = Frame!Changed(p, h, w), calls' = calls,
         store' \in [Frame!Handles -> Int \cup {None}]
  PROVE  FrameInv'
<1>1. /\ page' \in FramePage /\ page'.drag = p.drag
      /\ page'.history = page.history /\ page'.opened = page.opened
  BY DEF Frame!Changed, FramePage, FrameWidths
<1>2. \A g \in Frame!Handles : page'.drag[g] # None => Frame!Shown(g)'
  BY <1>1 DEF FrameInv, Frame!Shown
<1> QED
  BY <1>1, <1>2 DEF FrameInv

LEMMA FrameWidthsInv ==
  ASSUME Frame!Parameters, FrameInv, NEW h \in Frame!Handles,
         Frame!SetWidth(h) \/ Frame!PointerDown(h) \/ Frame!PointerMove(h)
         \/ Frame!FinishDragging(h)
  PROVE  FrameInv'
<1>1. /\ page \in FramePage /\ page.widths \in FrameWidths
      /\ page.drag \in [Frame!Handles -> FrameDrags \cup {None}]
      /\ page.widths[h] \in Widths.least..Widths.greatest
  BY DEF FrameInv, FramePage, FrameWidths
<1>2. CASE Frame!SetWidth(h)
  <2>1. PICK w \in {Widths.first, Widths.least, Widths.greatest,
                    Frame!Clamp(page.widths[h] - 1), Frame!Clamp(page.widths[h] + 1)} :
          page' = Frame!Changed(page, h, w) /\ Frame!Commit(h, w)
    BY <1>2 DEF Frame!SetWidth
  <2>2. w \in Widths.least..Widths.greatest
    BY <1>1 DEF Frame!Parameters, Frame!Clamp
  <2>3. [page.widths EXCEPT ![h] = w] \in FrameWidths
    BY <1>1, <2>2 DEF FrameWidths
  <2>4. store' \in [Frame!Handles -> Int \cup {None}]
    BY <2>1, <2>3, FrameStores DEF Frame!Commit
  <2>5. calls' = calls
    BY <1>2 DEF Frame!SetWidth
  <2> QED
    BY <1>1, <2>1, <2>2, <2>4, <2>5, FrameChanged
<1>3. CASE Frame!PointerDown(h)
  <2> DEFINE d == [start |-> page.widths[h], current |-> page.widths[h]]
  <2>1. d \in FrameDrags
    BY <1>1 DEF FrameDrags
  <2>2. page' = [page EXCEPT !.drag[h] = d] /\ Frame!Shown(h) /\ UNCHANGED <<calls, store>>
    BY <1>3 DEF Frame!PointerDown
  <2> HIDE DEF d
  <2>3. /\ page' \in FramePage /\ page'.history = page.history /\ page'.opened = page.opened
        /\ \A g \in Frame!Handles : g # h => page'.drag[g] = page.drag[g]
    BY <1>1, <2>1, <2>2 DEF FramePage
  <2>4. \A g \in Frame!Handles : page'.drag[g] # None => Frame!Shown(g)'
    BY <2>2, <2>3 DEF FrameInv, Frame!Shown
  <2> QED
    BY <2>2, <2>3, <2>4 DEF FrameInv
<1>4. CASE Frame!PointerMove(h)
  <2>1. PICK w \in Widths.least..Widths.greatest :
          page' = Frame!Changed([page EXCEPT !.drag[h].current = w], h, w)
    BY <1>4 DEF Frame!PointerMove
  <2> DEFINE d == [page.drag[h] EXCEPT !.current = w]
             p == [page EXCEPT !.drag[h] = d]
  <2>2. page.drag[h] # None /\ UNCHANGED <<calls, store>> /\ page' = Frame!Changed(p, h, w)
    BY <1>4, <2>1 DEF Frame!PointerMove
  <2>3. d \in FrameDrags
    BY <1>1, <2>2 DEF FrameDrags
  <2> HIDE DEF d
  <2>4. /\ p \in FramePage /\ p.history = page.history /\ p.opened = page.opened
        /\ \A g \in Frame!Handles : p.drag[g] # None => page.drag[g] # None
    BY <1>1, <2>2, <2>3 DEF FramePage
  <2>5. store' \in [Frame!Handles -> Int \cup {None}]
    BY <2>2 DEF FrameInv
  <2> HIDE DEF p
  <2> QED
    BY <2>2, <2>4, <2>5, FrameChanged
<1>5. CASE Frame!FinishDragging(h)
  <2>1. /\ page.drag[h] # None /\ page' = [page EXCEPT !.drag[h] = None]
        /\ Frame!Commit(h, page.drag[h].current) /\ calls' = calls
    BY <1>5 DEF Frame!FinishDragging
  <2>2. page.drag[h].current \in Widths.least..Widths.greatest
    BY <1>1, <2>1 DEF FrameDrags
  <2>3. [page.widths EXCEPT ![h] = page.drag[h].current] \in FrameWidths
    BY <1>1, <2>2 DEF FrameWidths
  <2>4. store' \in [Frame!Handles -> Int \cup {None}]
    BY <2>1, <2>3, FrameStores DEF Frame!Commit
  <2>5. /\ page' \in FramePage /\ page'.history = page.history /\ page'.opened = page.opened
        /\ \A g \in Frame!Handles : page'.drag[g] # None => page.drag[g] # None
    BY <1>1, <2>1 DEF FramePage
  <2>6. \A g \in Frame!Handles : page'.drag[g] # None => Frame!Shown(g)'
    BY <2>5 DEF FrameInv, Frame!Shown
  <2> QED
    BY <2>1, <2>4, <2>5, <2>6 DEF FrameInv
<1> QED
  BY <1>2, <1>3, <1>4, <1>5

LEMMA FrameInitInv == ASSUME Frame!Parameters PROVE Frame!Init => FrameInv
<1> SUFFICES ASSUME Frame!Init
             PROVE  FrameInv
  OBVIOUS
<1>1. store \in [Frame!Handles -> Int \cup {None}]
  BY DEF Frame!Init
<1>2. Frame!ReadSplitLayout(store) \in FrameWidths
  BY <1>1, FrameReadIsBounded
<1> QED
  BY <1>1, <1>2, FrameNewPage DEF Frame!Init, FrameInv

LEMMA FrameNextInv ==
  ASSUME Frame!Parameters
  PROVE  FrameInv /\ [Frame!Next]_(Frame!vars) => FrameInv'
<1> SUFFICES ASSUME FrameInv, [Frame!Next]_(Frame!vars)
             PROVE  FrameInv'
  OBVIOUS
<1>1. CASE Frame!ToggleHistory \/ Frame!Measure \/ Frame!SessionOpens
  BY <1>1, FramePanesInv
<1>2. ASSUME NEW h \in Frame!Handles,
             Frame!SetWidth(h) \/ Frame!PointerDown(h) \/ Frame!PointerMove(h)
             \/ Frame!FinishDragging(h)
      PROVE  FrameInv'
  BY <1>2, FrameWidthsInv
<1>3. CASE Frame!TimerStores
  <2>1. Frame!PersistSplitLayout(page.widths) /\ page.widths \in FrameWidths
    BY <1>3 DEF Frame!TimerStores, FrameInv, FramePage
  <2>2. store' \in [Frame!Handles -> Int \cup {None}]
    BY <2>1, FrameStores
  <2>3. /\ page' \in FramePage /\ page'.drag = page.drag
        /\ page'.history = page.history /\ page'.opened = page.opened /\ calls' = calls
    BY <1>3 DEF Frame!TimerStores, FrameInv, FramePage
  <2> QED
    BY <2>2, <2>3 DEF FrameInv, Frame!Shown
<1>4. CASE Frame!Remount
  <2>1. Frame!PersistSplitLayout(page.widths) /\ page.widths \in FrameWidths
    BY <1>4 DEF Frame!Remount, Frame!LeaveStored, FrameInv, FramePage
  <2>2. store' \in [Frame!Handles -> Int \cup {None}]
    BY <2>1, FrameStores
  <2>3. Frame!ReadSplitLayout(store') \in FrameWidths
    BY <2>2, FrameReadIsBounded
  <2> QED
    BY <1>4, <2>2, <2>3, FrameNewPage DEF Frame!Remount, FrameInv
<1>5. CASE Frame!AnotherTab
  <2>1. store' \in [Frame!Handles -> Int \cup {None}]
    BY <1>5 DEF Frame!AnotherTab, Frame!Parameters
  <2> QED
    BY <1>5, <2>1 DEF Frame!AnotherTab, FrameInv, Frame!Shown
<1>6. CASE UNCHANGED Frame!vars
  BY <1>6 DEF Frame!vars, FrameInv, Frame!Shown
<1> QED
  BY <1>1, <1>2, <1>3, <1>4, <1>5, <1>6 DEF Frame!Next

\* The panes are as wide as they may be, whatever another tab stored.
THEOREM FrameWidthsAreBounded == ASSUME Frame!Parameters PROVE Frame!Spec => []Frame!TypeOK
<1>1. FrameInv => Frame!TypeOK
  BY DEF FrameInv, FramePage, FrameWidths, Frame!TypeOK
<1> QED
  BY <1>1, FrameInitInv, FrameNextInv, PTL DEF Frame!Spec

-----------------------------------------------------------------------------
(* The dialogs of the workbench, for any requests and attachments.         *)

DialogsHitl ==
  [request: Requests \cup {None}, visible: BOOLEAN, rejecting: BOOLEAN, reason: BOOLEAN]
DialogsDraft == [typed: BOOLEAN, files: 0..Most.attachments, mentions: BOOLEAN]

DialogsPage ==
  [create: [open: BOOLEAN, titled: BOOLEAN], delete: BOOLEAN, hitl: DialogsHitl,
   menu: [open: BOOLEAN, renaming: BOOLEAN, titled: BOOLEAN],
   draft: DialogsDraft,
   permission: Dialogs!Permissions]
DialogsCalls ==
  [stream: {"none", "message", "resolve"}, request: Requests \cup {None},
   create: BOOLEAN, delete: BOOLEAN, archive: BOOLEAN]
DialogsStore == [archived: BOOLEAN, made: SUBSET Requests]

DialogsTypes == page \in DialogsPage /\ calls \in DialogsCalls /\ store \in DialogsStore

\* What is decided, or shown, has been asked for.
DialogsAsked ==
  /\ page.hitl.request \in store.made \cup {None}
  /\ page.hitl.visible => page.hitl.request # None
  /\ calls.request \in store.made \cup {None}

\* The dialog of what is ordered stays until the answer is there.
DialogsWait == (calls.create => page.create.open) /\ (calls.delete => page.delete)

DialogsInv == DialogsTypes /\ DialogsAsked /\ DialogsWait

LEMMA DialogsNewPageFacts ==
  ASSUME Dialogs!Parameters, NEW permission \in Dialogs!Permissions
  PROVE  /\ Dialogs!NewPage(permission) \in DialogsPage
         /\ Dialogs!NewPage(permission).hitl.request = None
         /\ Dialogs!NewPage(permission).hitl.visible = FALSE
<1> DEFINE none == [request |-> None, visible |-> FALSE, rejecting |-> FALSE, reason |-> FALSE]
<1>1. Dialogs!Hitl(None) = none
  BY DEF Dialogs!Hitl
<1>2. none \in DialogsHitl /\ none.request = None /\ none.visible = FALSE
  BY DEF DialogsHitl
<1> HIDE DEF none
<1> QED
  BY <1>1, <1>2 DEF Dialogs!NewPage, DialogsPage, DialogsDraft, Dialogs!Parameters

\* The dialogs of sessions.
LEMMA DialogsOfSessionsInv ==
  ASSUME Dialogs!Parameters, DialogsInv,
         Dialogs!OpenCreateModal \/ Dialogs!TypeTitle \/ Dialogs!SubmitCreate \/ Dialogs!CreateFails
         \/ Dialogs!OpenDeleteModal \/ Dialogs!ConfirmDelete \/ Dialogs!DeleteFails
  PROVE  DialogsInv'
<1> USE DEF DialogsInv, DialogsTypes, DialogsAsked, DialogsWait, DialogsPage, DialogsCalls
<1>1. CASE Dialogs!OpenCreateModal
  BY <1>1 DEF Dialogs!OpenCreateModal
<1>2. CASE Dialogs!TypeTitle
  BY <1>2 DEF Dialogs!TypeTitle
<1>3. CASE Dialogs!SubmitCreate
  BY <1>3 DEF Dialogs!SubmitCreate
<1>4. CASE Dialogs!CreateFails
  BY <1>4 DEF Dialogs!CreateFails
<1>5. CASE Dialogs!OpenDeleteModal
  BY <1>5 DEF Dialogs!OpenDeleteModal
<1>6. CASE Dialogs!ConfirmDelete
  BY <1>6 DEF Dialogs!ConfirmDelete
<1>7. CASE Dialogs!DeleteFails
  BY <1>7 DEF Dialogs!DeleteFails
<1> QED
  BY <1>1, <1>2, <1>3, <1>4, <1>5, <1>6, <1>7

LEMMA DialogsAnotherSessionInv ==
  ASSUME Dialogs!Parameters, DialogsInv, Dialogs!AnotherSession
  PROVE  DialogsInv'
<1>1. page.permission \in Dialogs!Permissions
  BY DEF DialogsInv, DialogsTypes, DialogsPage
<1>2. /\ page' = Dialogs!NewPage(page.permission) /\ calls' = Dialogs!Idle
      /\ store' \in DialogsStore
  BY DEF Dialogs!AnotherSession, DialogsStore
<1>3. /\ calls' \in DialogsCalls /\ calls'.request = None
      /\ calls'.create = FALSE /\ calls'.delete = FALSE
  BY <1>2 DEF Dialogs!Idle, DialogsCalls
<1> QED
  BY <1>1, <1>2, <1>3, DialogsNewPageFacts DEF DialogsInv, DialogsTypes, DialogsAsked, DialogsWait

LEMMA DialogsCloseInv ==
  ASSUME Dialogs!Parameters, DialogsInv, Dialogs!CloseDialog \/ Dialogs!Escape
  PROVE  DialogsInv'
<1> USE DEF DialogsInv, DialogsTypes, DialogsAsked, DialogsWait, DialogsPage, DialogsCalls,
            DialogsHitl
<1>1. CASE Dialogs!CloseDialog
  <2>1. CASE page.create.open /\ ~calls.create /\ page' = [page EXCEPT !.create.open = FALSE]
    BY <1>1, <2>1 DEF Dialogs!CloseDialog
  <2>2. CASE page.delete /\ ~calls.delete /\ page' = [page EXCEPT !.delete = FALSE]
    BY <1>1, <2>2 DEF Dialogs!CloseDialog
  <2>3. CASE page.hitl.visible /\ page' = [page EXCEPT !.hitl.visible = FALSE]
    BY <1>1, <2>3 DEF Dialogs!CloseDialog
  <2> QED
    BY <1>1, <2>1, <2>2, <2>3 DEF Dialogs!CloseDialog
<1>2. CASE Dialogs!Escape
  BY <1>2 DEF Dialogs!Escape
<1> QED
  BY <1>1, <1>2

LEMMA DialogsOfRequestsInv ==
  ASSUME Dialogs!Parameters, DialogsInv,
         Dialogs!ShowHITL \/ Dialogs!ToggleRejecting \/ Dialogs!TypeReason \/ Dialogs!Decide
  PROVE  DialogsInv'
<1> USE DEF DialogsInv, DialogsTypes, DialogsAsked, DialogsWait, DialogsPage, DialogsCalls,
            DialogsHitl
<1>1. CASE Dialogs!ShowHITL
  BY <1>1 DEF Dialogs!ShowHITL
<1>2. CASE Dialogs!ToggleRejecting
  BY <1>2 DEF Dialogs!ToggleRejecting
<1>3. CASE Dialogs!TypeReason
  BY <1>3 DEF Dialogs!TypeReason
<1>4. CASE Dialogs!Decide
  BY <1>4 DEF Dialogs!Decide, Dialogs!Hitl
<1> QED
  BY <1>1, <1>2, <1>3, <1>4

LEMMA DialogsComposerInv ==
  ASSUME Dialogs!Parameters, DialogsInv,
         Dialogs!Send \/ Dialogs!SendOther \/ Dialogs!Type \/ Dialogs!ToggleMentions
         \/ Dialogs!AttachFiles
  PROVE  DialogsInv'
<1> USE DEF DialogsInv, DialogsTypes, DialogsAsked, DialogsWait, DialogsPage, DialogsCalls
<1>1. CASE Dialogs!Send
  <2> DEFINE draft == [typed |-> FALSE, files |-> 0, mentions |-> FALSE]
  <2>1. draft \in DialogsDraft
    BY DEF DialogsDraft, Dialogs!Parameters
  <2>2. /\ page' = [page EXCEPT !.draft = draft] /\ calls' = [calls EXCEPT !.stream = "message"]
        /\ UNCHANGED store
    BY <1>1 DEF Dialogs!Send
  <2> HIDE DEF draft
  <2> QED
    BY <2>1, <2>2
<1>2. CASE Dialogs!SendOther
  BY <1>2 DEF Dialogs!SendOther
<1>3. CASE Dialogs!Type
  BY <1>3 DEF Dialogs!Type, DialogsDraft
<1>4. CASE Dialogs!ToggleMentions
  <2>1. PICK typed \in BOOLEAN :
          page' = [page EXCEPT !.draft.mentions = ~@, !.draft.typed = typed]
    BY <1>4 DEF Dialogs!ToggleMentions, DialogsDraft
  <2> DEFINE draft == [page.draft EXCEPT !.mentions = ~@, !.typed = typed]
  <2>2. draft \in DialogsDraft
    BY DEF DialogsDraft
  <2>3. page' = [page EXCEPT !.draft = draft] /\ UNCHANGED <<calls, store>>
    BY <1>4, <2>1 DEF Dialogs!ToggleMentions
  <2> HIDE DEF draft
  <2> QED
    BY <2>2, <2>3
<1>5. CASE Dialogs!AttachFiles
  BY <1>5 DEF Dialogs!AttachFiles, DialogsDraft
<1> QED
  BY <1>1, <1>2, <1>3, <1>4, <1>5

LEMMA DialogsMenuInv ==
  ASSUME Dialogs!Parameters, DialogsInv,
         Dialogs!ToggleMenu \/ Dialogs!StartRenaming \/ Dialogs!TypeName \/ Dialogs!SubmitName
         \/ Dialogs!ArchiveSession \/ Dialogs!ArchiveAnswered
  PROVE  DialogsInv'
<1> USE DEF DialogsInv, DialogsTypes, DialogsAsked, DialogsWait, DialogsPage, DialogsCalls
<1>1. CASE Dialogs!ToggleMenu
  BY <1>1 DEF Dialogs!ToggleMenu
<1>2. CASE Dialogs!StartRenaming
  BY <1>2 DEF Dialogs!StartRenaming
<1>3. CASE Dialogs!TypeName
  BY <1>3 DEF Dialogs!TypeName
<1>4. CASE Dialogs!SubmitName
  BY <1>4 DEF Dialogs!SubmitName
<1>5. CASE Dialogs!ArchiveSession
  BY <1>5 DEF Dialogs!ArchiveSession
<1>6. CASE Dialogs!ArchiveAnswered
  BY <1>6 DEF Dialogs!ArchiveAnswered, DialogsStore
<1> QED
  BY <1>1, <1>2, <1>3, <1>4, <1>5, <1>6

LEMMA DialogsStreamInv ==
  ASSUME Dialogs!Parameters, DialogsInv,
         Dialogs!Interrupts \/ Dialogs!StreamEnds \/ Dialogs!ResolutionFails
         \/ Dialogs!FolderChanges
  PROVE  DialogsInv'
<1> USE DEF DialogsInv, DialogsTypes, DialogsAsked, DialogsWait, DialogsPage, DialogsCalls
<1>1. CASE Dialogs!Interrupts
  <2>1. PICK r \in Requests \ store.made :
          /\ page' = [page EXCEPT !.hitl = Dialogs!Hitl(r)]
          /\ store' = [store EXCEPT !.made = @ \cup {r}]
    BY <1>1 DEF Dialogs!Interrupts
  <2>2. /\ Dialogs!Hitl(r) \in DialogsHitl /\ Dialogs!Hitl(r).request = r
        /\ r # None
    BY DEF Dialogs!Hitl, DialogsHitl, Dialogs!Parameters
  <2>3. /\ page' \in DialogsPage /\ page'.hitl.request = r
        /\ page'.create = page.create /\ page'.delete = page.delete
    BY <2>1, <2>2
  <2>4. /\ store' \in DialogsStore /\ store'.made = store.made \cup {r}
    BY <2>1 DEF DialogsStore
  <2>5. calls' = calls
    BY <1>1 DEF Dialogs!Interrupts
  <2> QED
    BY <2>2, <2>3, <2>4, <2>5
<1>2. CASE Dialogs!StreamEnds
  BY <1>2 DEF Dialogs!StreamEnds
<1>3. CASE Dialogs!ResolutionFails
  BY <1>3 DEF Dialogs!ResolutionFails, Dialogs!Hitl, DialogsHitl
<1>4. CASE Dialogs!FolderChanges
  BY <1>4 DEF Dialogs!FolderChanges
<1> QED
  BY <1>1, <1>2, <1>3, <1>4

LEMMA DialogsInitInv == ASSUME Dialogs!Parameters PROVE Dialogs!Init => DialogsInv
<1> SUFFICES ASSUME Dialogs!Init
             PROVE  DialogsInv
  OBVIOUS
<1>1. /\ calls \in DialogsCalls /\ calls.request = None
      /\ calls.create = FALSE /\ calls.delete = FALSE
  BY DEF Dialogs!Init, Dialogs!Idle, DialogsCalls
<1>2. store \in DialogsStore
  BY DEF Dialogs!Init, DialogsStore
<1>3. /\ page \in DialogsPage /\ page.hitl.request = None /\ page.hitl.visible = FALSE
  BY DialogsNewPageFacts DEF Dialogs!Init
<1> QED
  BY <1>1, <1>2, <1>3 DEF DialogsInv, DialogsTypes, DialogsAsked, DialogsWait

LEMMA DialogsNextInv ==
  ASSUME Dialogs!Parameters
  PROVE  DialogsInv /\ [Dialogs!Next]_(Dialogs!vars) => DialogsInv'
<1> SUFFICES ASSUME DialogsInv, [Dialogs!Next]_(Dialogs!vars)
             PROVE  DialogsInv'
  OBVIOUS
<1>1. CASE UNCHANGED Dialogs!vars
  BY <1>1 DEF Dialogs!vars, DialogsInv, DialogsTypes, DialogsAsked, DialogsWait
<1>2. CASE Dialogs!Next
  BY <1>2, DialogsOfSessionsInv, DialogsAnotherSessionInv, DialogsCloseInv, DialogsOfRequestsInv,
     DialogsComposerInv, DialogsMenuInv, DialogsStreamInv DEF Dialogs!Next
<1> QED
  BY <1>1, <1>2

\* A request for approval is shown only if the agent made it, and a dialog waits for the answer.
THEOREM DialogsAreOfRequests == ASSUME Dialogs!Parameters PROVE Dialogs!Spec => []Dialogs!TypeOK
<1>1. DialogsInv => Dialogs!TypeOK
  BY DEF DialogsInv, DialogsTypes, DialogsAsked, DialogsWait, DialogsPage, DialogsCalls,
         DialogsHitl,
         DialogsDraft, Dialogs!TypeOK
<1> QED
  BY <1>1, DialogsInitInv, DialogsNextInv, PTL DEF Dialogs!Spec

-----------------------------------------------------------------------------
(* The page of alerts, for any folders, alerts and saves.                  *)

AlertsLoad ==
  [current: BOOLEAN, by: {"effect", "refresh"}, query: Alerts!Queries, route: Entries \cup {None},
   stage: {"list", "alert"}, items: SUBSET Entries]

AlertsList == [status: {"loading", "error"}] \cup [status: {"success"}, items: SUBSET Entries]

AlertsPage ==
  [route: Entries \cup {None}, query: Alerts!Queries, known: BOOLEAN,
   folders: SUBSET FoldersOf["alerts"], writable: SUBSET FoldersOf["alerts"], list: AlertsList,
   detail: [id: Entries, status: Alerts!Statuses] \cup {None}, timer: BOOLEAN,
   refreshing: BOOLEAN, saving: BOOLEAN, analysis: BOOLEAN]

AlertsCalls ==
  [loads: SUBSET AlertsLoad, refresh: {"sent", "loads", None}, save: Entries \cup {None}]

AlertsStore ==
  [status: [Entries -> Alerts!Statuses], events: [Entries -> Nat], runbooks: Nat]

AlertsTypes == page \in AlertsPage /\ calls \in AlertsCalls /\ store \in AlertsStore

AlertsDetail ==
  Alerts!Showing => (IF page.list.items = {} THEN page.detail = None
                     ELSE page.detail.id \in page.list.items)

AlertsWaits ==
  /\ page.refreshing <=> calls.refresh # None
  /\ page.saving <=> calls.save # None

\* One load counts.
AlertsCounting == \A l, m \in calls.loads : l.current /\ m.current => l = m

AlertsInv == AlertsTypes /\ AlertsDetail /\ AlertsWaits /\ AlertsCounting

AlertsQuiet == page'.refreshing = FALSE /\ page'.saving = FALSE /\ calls' = Alerts!Quiet

LEMMA AlertsQuietInv ==
  ASSUME AlertsInv, AlertsQuiet, store' \in AlertsStore, page' \in AlertsPage, AlertsDetail'
  PROVE  AlertsInv'
<1>1. calls' \in AlertsCalls /\ calls'.loads = {} /\ calls'.refresh = None /\ calls'.save = None
  BY DEF AlertsQuiet, Alerts!Quiet, AlertsCalls
<1> QED
  BY <1>1 DEF AlertsInv, AlertsTypes, AlertsWaits, AlertsCounting, AlertsQuiet

LEMMA AlertsScopedFacts ==
  ASSUME NEW p \in AlertsPage
  PROVE  /\ Alerts!Scoped(p) \in AlertsPage /\ Alerts!Scoped(p).list = p.list
         /\ Alerts!Scoped(p).detail = p.detail
         /\ Alerts!Scoped(p).refreshing = FALSE /\ Alerts!Scoped(p).saving = FALSE
  BY DEF Alerts!Scoped, AlertsPage

LEMMA AlertsMountedFacts ==
  ASSUME NEW p \in AlertsPage, NEW at \in Entries \cup {None}
  PROVE  /\ Alerts!Mounted(p, at) \in AlertsPage
         /\ Alerts!Mounted(p, at).list.status = "loading"
         /\ Alerts!Mounted(p, at).refreshing = FALSE /\ Alerts!Mounted(p, at).saving = FALSE
<1> DEFINE loading == [status |-> "loading"]
<1>1. loading \in AlertsList /\ loading.status = "loading"
  BY DEF AlertsList
<1>2. Alerts!AnyAlert \in Alerts!Queries
  BY DEF Alerts!AnyAlert, Alerts!Queries
<1>3. Alerts!Mounted(p, at) = [Alerts!Scoped(p) EXCEPT !.route = at, !.query = Alerts!AnyAlert,
                                 !.timer = TRUE, !.list = loading, !.detail = None]
  BY DEF Alerts!Mounted
<1> HIDE DEF loading
<1> QED
  BY <1>1, <1>2, <1>3, AlertsScopedFacts DEF AlertsPage

\* The page is mounted anew, or what the old scope had is dropped.
LEMMA AlertsMountedInv ==
  ASSUME AlertsInv, NEW p \in AlertsPage, NEW at \in Entries \cup {None},
         page' = Alerts!Mounted(p, at), calls' = Alerts!Quiet, store' \in AlertsStore
  PROVE  AlertsInv'
<1>1. AlertsDetail' /\ AlertsQuiet /\ page' \in AlertsPage
  BY AlertsMountedFacts DEF AlertsDetail, AlertsQuiet, Alerts!Showing
<1> QED
  BY <1>1, AlertsQuietInv

LEMMA AlertsScopedInv ==
  ASSUME AlertsInv, NEW p \in AlertsPage, p.list = page.list, p.detail = page.detail,
         page' \in AlertsPage, page'.list = p.list, page'.detail = p.detail,
         page'.refreshing = FALSE, page'.saving = FALSE,
         calls' = Alerts!Quiet, UNCHANGED store
  PROVE  AlertsInv'
<1>1. AlertsDetail' /\ AlertsQuiet
  BY DEF AlertsInv, AlertsDetail, AlertsQuiet, Alerts!Showing
<1> QED
  BY <1>1, AlertsQuietInv DEF AlertsInv, AlertsTypes

LEMMA AlertsScopeInv ==
  ASSUME Alerts!Parameters, AlertsInv,
         Alerts!SetQuery \/ Alerts!FoldersChange \/ Alerts!Select \/ Alerts!Leave
  PROVE  AlertsInv'
<1>1. page \in AlertsPage /\ store \in AlertsStore
  BY DEF AlertsInv, AlertsTypes
<1>2. CASE Alerts!SetQuery
  <2>1. PICK query \in Alerts!Queries :
          page' = [Alerts!Scoped(page) EXCEPT !.query = query, !.timer = TRUE]
    BY <1>2 DEF Alerts!SetQuery
  <2>2. /\ page' \in AlertsPage /\ page'.list = page.list /\ page'.detail = page.detail
        /\ page'.refreshing = FALSE /\ page'.saving = FALSE
    BY <1>1, <2>1, AlertsScopedFacts DEF AlertsPage
  <2> QED
    BY <1>1, <1>2, <2>2, AlertsScopedInv DEF Alerts!SetQuery
<1>3. CASE Alerts!FoldersChange
  <2>1. PICK settled \in BOOLEAN, folders \in SUBSET FoldersOf["alerts"],
             writable \in SUBSET FoldersOf["alerts"] :
          LET changed == [page EXCEPT !.known = settled, !.folders = folders, !.writable = writable]
          IN  /\ \/ page' = changed /\ UNCHANGED calls
                 \/ page' = [Alerts!Scoped(changed) EXCEPT !.timer = TRUE] /\ calls' = Alerts!Quiet
              /\ UNCHANGED store
    BY <1>3 DEF Alerts!FoldersChange
  <2> DEFINE changed == [page EXCEPT !.known = settled, !.folders = folders, !.writable = writable]
  <2>2. /\ changed \in AlertsPage /\ changed.list = page.list /\ changed.detail = page.detail
        /\ changed.refreshing = page.refreshing /\ changed.saving = page.saving
    BY <1>1 DEF AlertsPage
  <2>3. /\ \/ page' = changed /\ UNCHANGED calls
           \/ page' = [Alerts!Scoped(changed) EXCEPT !.timer = TRUE] /\ calls' = Alerts!Quiet
        /\ UNCHANGED store
    BY <2>1
  <2> HIDE DEF changed
  <2>4. CASE page' = changed /\ UNCHANGED calls
    BY <2>2, <2>3, <2>4
    DEF AlertsInv, AlertsTypes, AlertsDetail, AlertsWaits, AlertsCounting, Alerts!Showing
  <2>5. CASE page' = [Alerts!Scoped(changed) EXCEPT !.timer = TRUE] /\ calls' = Alerts!Quiet
    <3>1. /\ page' \in AlertsPage /\ page'.list = changed.list /\ page'.detail = changed.detail
          /\ page'.refreshing = FALSE /\ page'.saving = FALSE
      BY <2>2, <2>5, AlertsScopedFacts DEF AlertsPage
    <3> QED
      BY <2>2, <2>3, <2>5, <3>1, AlertsScopedInv
  <2> QED
    BY <2>3, <2>4, <2>5
<1>4. CASE Alerts!Select
  <2>1. PICK i \in page.list.items : page' = Alerts!Enter(page, i)
    BY <1>4 DEF Alerts!Select
  <2>2. i \in Entries
    BY <1>1, <1>4 DEF Alerts!Select, Alerts!Showing, AlertsPage, AlertsList
  <2>3. page' = Alerts!Mounted(page, i)
    BY <2>1 DEF Alerts!Enter
  <2> QED
    BY <1>1, <1>4, <2>2, <2>3, AlertsMountedInv DEF Alerts!Select
<1>5. CASE Alerts!Leave
  BY <1>1, <1>5, AlertsMountedInv DEF Alerts!Leave
<1> QED
  BY <1>2, <1>3, <1>4, <1>5

LEMMA AlertsLoadFacts ==
  ASSUME AlertsTypes, NEW by \in {"effect", "refresh"}
  PROVE  /\ Alerts!Load(by) \subseteq AlertsLoad
         /\ \A l, m \in Alerts!Load(by) : l.current /\ m.current => l = m
<1> DEFINE q == Alerts!EffectiveQuery(page)
           last == [current |-> TRUE, by |-> by, query |-> q, route |-> page.route,
                    stage |-> "list", items |-> {}]
           old == {[l EXCEPT !.current = FALSE] : l \in {m \in calls.loads : m.by = "refresh"}}
<1>1. q \in Alerts!Queries
  BY DEF AlertsTypes, AlertsPage, Alerts!EffectiveQuery, Alerts!Queries
<1> HIDE DEF q
<1>2. last \in AlertsLoad
  BY <1>1 DEF AlertsTypes, AlertsPage, AlertsLoad
<1>3. old \subseteq AlertsLoad /\ \A l \in old : ~l.current
  BY DEF AlertsTypes, AlertsCalls, AlertsLoad
<1>4. Alerts!Load(by) = old \cup {last}
  BY DEF Alerts!Load, q
<1> HIDE DEF old, last
<1> QED
  BY <1>2, <1>3, <1>4

\* A load ends, with the refresh that waits for it.
LEMMA AlertsEndedFacts ==
  ASSUME AlertsTypes, AlertsWaits, AlertsCounting, NEW l \in calls.loads
  PROVE  /\ Alerts!Ended(page, l) \in AlertsPage
         /\ Alerts!Ended(page, l).list = page.list /\ Alerts!Ended(page, l).detail = page.detail
         /\ Alerts!Ended(page, l).saving = page.saving
         /\ Alerts!CallsAfter(l) \in AlertsCalls
         /\ Alerts!CallsAfter(l).loads \subseteq calls.loads
         /\ Alerts!CallsAfter(l).save = calls.save
         /\ Alerts!Ended(page, l).refreshing <=> Alerts!CallsAfter(l).refresh # None
<1>1. CASE l.by = "refresh"
  BY <1>1 DEF AlertsTypes, AlertsWaits, AlertsPage, AlertsCalls, Alerts!Ended, Alerts!CallsAfter
<1>2. CASE l.by # "refresh"
  BY <1>2 DEF AlertsTypes, AlertsWaits, AlertsPage, AlertsCalls, Alerts!Ended, Alerts!CallsAfter
<1> QED
  BY <1>1, <1>2

LEMMA AlertsEndsInv ==
  ASSUME AlertsInv, NEW l \in calls.loads, calls' = Alerts!CallsAfter(l), store' = store,
         page' \in AlertsPage, AlertsDetail',
         page'.refreshing = Alerts!Ended(page, l).refreshing,
         page'.saving = Alerts!Ended(page, l).saving
  PROVE  AlertsInv'
  BY AlertsEndedFacts DEF AlertsInv, AlertsTypes, AlertsWaits, AlertsCounting

LEMMA AlertsAnswersInv ==
  ASSUME Alerts!Parameters, AlertsInv, NEW l \in calls.loads,
         Alerts!Overtaken(l) \/ Alerts!ListAnswered(l) \/ Alerts!NoneAnswered(l)
         \/ Alerts!AlertAnswered(l) \/ Alerts!LoadFails(l)
  PROVE  AlertsInv'
<1> DEFINE ended == Alerts!Ended(page, l)
<1>1. /\ l \in AlertsLoad /\ store \in AlertsStore /\ ended \in AlertsPage
      /\ ended.list = page.list /\ ended.detail = page.detail
  BY AlertsEndedFacts DEF AlertsInv, AlertsTypes, AlertsCalls
<1> HIDE DEF ended
<1>2. CASE Alerts!Overtaken(l)
  <2>1. page' = ended /\ calls' = Alerts!CallsAfter(l) /\ store' = store
    BY <1>2 DEF Alerts!Overtaken, ended
  <2>2. AlertsDetail'
    BY <1>1, <2>1 DEF AlertsInv, AlertsDetail, Alerts!Showing
  <2> QED
    BY <1>1, <2>1, <2>2, AlertsEndsInv DEF ended
<1>3. CASE Alerts!ListAnswered(l)
  <2> DEFINE next == [l EXCEPT !.stage = "alert", !.items = Alerts!ListAlerts(l.query)]
             loads == (calls.loads \ {l}) \cup {next}
  <2>1. /\ calls' = [calls EXCEPT !.loads = loads] /\ page' = page /\ store' = store /\ l.current
    BY <1>3 DEF Alerts!ListAnswered
  <2>2. next \in AlertsLoad
    BY <1>1 DEF AlertsLoad, Alerts!ListAlerts
  <2> HIDE DEF next
  <2>3. loads \subseteq AlertsLoad /\ \A m, n \in loads : m.current /\ n.current => m = n
    BY <2>1, <2>2 DEF AlertsInv, AlertsTypes, AlertsCalls, AlertsCounting
  <2> HIDE DEF loads
  <2>4. /\ calls' \in AlertsCalls /\ calls'.loads = loads
        /\ calls'.refresh = calls.refresh /\ calls'.save = calls.save
    BY <2>1, <2>3 DEF AlertsInv, AlertsTypes, AlertsCalls
  <2> QED
    BY <2>1, <2>3, <2>4
    DEF AlertsInv, AlertsTypes, AlertsDetail, AlertsWaits, AlertsCounting, Alerts!Showing
<1>4. CASE Alerts!NoneAnswered(l)
  <2> DEFINE none == [status |-> "success", items |-> {}]
  <2>1. none \in AlertsList /\ none.items = {}
    BY DEF AlertsList
  <2>2. /\ page' = [ended EXCEPT !.list = none, !.detail = None]
        /\ calls' = Alerts!CallsAfter(l) /\ store' = store
    BY <1>4 DEF Alerts!NoneAnswered, ended
  <2> HIDE DEF none
  <2>3. /\ page' \in AlertsPage /\ page'.list = none /\ page'.detail = None
        /\ page'.refreshing = ended.refreshing /\ page'.saving = ended.saving
    BY <1>1, <2>1, <2>2 DEF AlertsPage
  <2>4. AlertsDetail'
    BY <2>1, <2>3 DEF AlertsDetail
  <2> QED
    BY <2>2, <2>3, <2>4, AlertsEndsInv DEF ended
<1>5. CASE Alerts!AlertAnswered(l)
  <2>1. PICK i \in l.items :
          LET shows == [ended EXCEPT !.list = [status |-> "success", items |-> l.items],
                                     !.detail = [id |-> i, status |-> store.status[i]]]
          IN  \/ page' = shows /\ calls' = Alerts!CallsAfter(l)
              \/ page' = Alerts!Mounted(shows, i) /\ calls' = Alerts!Quiet
    BY <1>5 DEF Alerts!AlertAnswered, ended
  <2> DEFINE all == [status |-> "success", items |-> l.items]
             one == [id |-> i, status |-> store.status[i]]
             shows == [ended EXCEPT !.list = all, !.detail = one]
  <2>2. all \in AlertsList /\ all.items = l.items /\ i \in Entries
    BY <1>1 DEF AlertsLoad, AlertsList
  <2>3. one \in [id: Entries, status: Alerts!Statuses] /\ one.id = i
    BY <1>1, <2>2 DEF AlertsStore
  <2>5. \/ page' = shows /\ calls' = Alerts!CallsAfter(l)
        \/ page' = Alerts!Mounted(shows, i) /\ calls' = Alerts!Quiet
    BY <2>1
  <2> HIDE DEF all, one
  <2>6. /\ shows \in AlertsPage /\ shows.list = all /\ shows.detail = one
        /\ shows.refreshing = ended.refreshing /\ shows.saving = ended.saving
    BY <1>1, <2>2, <2>3 DEF AlertsPage
  <2>7. store' = store
    BY <1>5 DEF Alerts!AlertAnswered
  <2> HIDE DEF shows
  <2>8. CASE page' = shows /\ calls' = Alerts!CallsAfter(l)
    <3>1. AlertsDetail'
      BY <2>2, <2>3, <2>6, <2>8 DEF AlertsDetail
    <3> QED
      BY <2>6, <2>7, <2>8, <3>1, AlertsEndsInv DEF ended
  <2>9. CASE page' = Alerts!Mounted(shows, i) /\ calls' = Alerts!Quiet
    BY <1>1, <2>2, <2>6, <2>7, <2>9, AlertsMountedInv
  <2> QED
    BY <2>5, <2>8, <2>9
<1>6. CASE Alerts!LoadFails(l)
  <2> DEFINE failed == [status |-> "error"]
  <2>1. failed \in AlertsList /\ failed.status # "success"
    BY DEF AlertsList
  <2>2. /\ page' = [ended EXCEPT !.list = failed]
        /\ calls' = Alerts!CallsAfter(l) /\ store' = store
    BY <1>6 DEF Alerts!LoadFails, ended
  <2> HIDE DEF failed
  <2>3. /\ page' \in AlertsPage /\ page'.list = failed
        /\ page'.refreshing = ended.refreshing /\ page'.saving = ended.saving
    BY <1>1, <2>1, <2>2 DEF AlertsPage
  <2>4. AlertsDetail'
    BY <2>1, <2>3 DEF AlertsDetail, Alerts!Showing
  <2> QED
    BY <2>2, <2>3, <2>4, AlertsEndsInv DEF ended
<1> QED
  BY <1>2, <1>3, <1>4, <1>5, <1>6

\* The steps that keep the list and its detail.
LEMMA AlertsOrdersInv ==
  ASSUME Alerts!Parameters, AlertsInv,
         Alerts!OpenAnalysis \/ Alerts!CloseAnalysis \/ Alerts!TimerLoads \/ Alerts!Refresh
         \/ Alerts!RefreshAnswered \/ Alerts!RefreshFails \/ Alerts!SaveRunbook \/ Alerts!SaveFails
  PROVE  AlertsInv'
<1>1. page \in AlertsPage /\ calls \in AlertsCalls /\ store \in AlertsStore /\ AlertsWaits
  BY DEF AlertsInv, AlertsTypes
<1>2. page' \in AlertsPage /\ page'.list = page.list /\ page'.detail = page.detail
  BY <1>1 DEF AlertsPage, Alerts!OpenAnalysis, Alerts!CloseAnalysis, Alerts!TimerLoads,
         Alerts!Refresh, Alerts!RefreshAnswered, Alerts!RefreshFails, Alerts!SaveRunbook,
         Alerts!SaveFails
<1>3. AlertsDetail'
  BY <1>2 DEF AlertsInv, AlertsDetail, Alerts!Showing
<1>4. store' \in AlertsStore
  <2>1. CASE store' = store
    BY <1>1, <2>1
  <2>2. CASE \E pushed \in SUBSET Alerts!Changed :
               store' = [store EXCEPT !.status = [i \in Entries |-> Alerts!Advance(@[i])],
                           !.events = [i \in Entries |-> IF i \in pushed THEN @[i] + 1 ELSE @[i]]]
    <3>1. PICK pushed :
            store' = [store EXCEPT !.status = [i \in Entries |-> Alerts!Advance(store.status[i])],
                        !.events = [i \in Entries |-> IF i \in pushed THEN store.events[i] + 1
                                                      ELSE store.events[i]]]
      BY <2>2
    <3>2. [i \in Entries |-> Alerts!Advance(store.status[i])] \in [Entries -> Alerts!Statuses]
      BY <1>1 DEF AlertsStore, Alerts!Advance, Alerts!Statuses
    <3>3. [i \in Entries |-> IF i \in pushed THEN store.events[i] + 1 ELSE store.events[i]]
            \in [Entries -> Nat]
      BY <1>1 DEF AlertsStore
    <3> QED
      BY <1>1, <3>1, <3>2, <3>3 DEF AlertsStore
  <2> QED
    BY <2>1, <2>2
    DEF Alerts!OpenAnalysis, Alerts!CloseAnalysis, Alerts!TimerLoads, Alerts!Refresh,
        Alerts!RefreshAnswered, Alerts!RefreshFails, Alerts!SaveRunbook, Alerts!SaveFails,
        Alerts!RefreshAlerts
<1>5. calls' \in AlertsCalls /\ AlertsCounting'
  <2>1. CASE Alerts!TimerLoads \/ Alerts!RefreshAnswered
    <3>1. PICK by \in {"effect", "refresh"} :
            \/ calls' = [calls EXCEPT !.loads = Alerts!Load(by)]
            \/ calls' = [calls EXCEPT !.refresh = "loads", !.loads = Alerts!Load(by)]
      BY <2>1 DEF Alerts!TimerLoads, Alerts!RefreshAnswered
    <3>2. calls' \in AlertsCalls /\ calls'.loads = Alerts!Load(by)
      BY <1>1, <3>1, AlertsLoadFacts DEF AlertsCalls, AlertsInv
    <3> QED
      BY <3>2, AlertsLoadFacts DEF AlertsInv, AlertsCounting
  <2>2. CASE \/ Alerts!OpenAnalysis \/ Alerts!CloseAnalysis \/ Alerts!Refresh
             \/ Alerts!RefreshFails \/ Alerts!SaveFails
    <3>1. calls' \in AlertsCalls /\ calls'.loads = calls.loads
      BY <1>1, <2>2 DEF AlertsCalls, Alerts!OpenAnalysis, Alerts!CloseAnalysis, Alerts!Refresh,
                        Alerts!RefreshFails, Alerts!SaveFails
    <3> QED
      BY <3>1 DEF AlertsInv, AlertsCounting
  <2>3. CASE Alerts!SaveRunbook
    <3>1. page.detail.id \in Entries
      BY <1>1, <2>3 DEF Alerts!SaveRunbook, AlertsPage
    <3>2. calls' \in AlertsCalls /\ calls'.loads = calls.loads
      BY <1>1, <2>3, <3>1 DEF AlertsCalls, Alerts!SaveRunbook
    <3> QED
      BY <3>2 DEF AlertsInv, AlertsCounting
  <2> QED
    BY <2>1, <2>2, <2>3
<1>6. AlertsWaits'
  <2>1. CASE Alerts!OpenAnalysis \/ Alerts!CloseAnalysis \/ Alerts!TimerLoads
    <3>1. /\ page'.refreshing = page.refreshing /\ page'.saving = page.saving
          /\ calls'.refresh = calls.refresh /\ calls'.save = calls.save
      BY <1>1, <2>1 DEF AlertsPage, AlertsCalls, Alerts!OpenAnalysis, Alerts!CloseAnalysis,
                        Alerts!TimerLoads
    <3> QED
      BY <1>1, <3>1 DEF AlertsWaits
  <2>2. CASE Alerts!Refresh
    <3>1. /\ page'.refreshing = TRUE /\ page'.saving = page.saving
          /\ calls'.refresh = "sent" /\ calls'.save = calls.save
      BY <1>1, <2>2 DEF AlertsPage, AlertsCalls, Alerts!Refresh
    <3> QED
      BY <1>1, <3>1 DEF AlertsWaits, Alerts!Parameters
  <2>3. CASE Alerts!RefreshAnswered
    <3>1. /\ page' = page /\ calls.refresh = "sent"
          /\ calls'.refresh = "loads" /\ calls'.save = calls.save
      BY <1>1, <2>3 DEF AlertsPage, AlertsCalls, Alerts!RefreshAnswered
    <3> QED
      BY <1>1, <3>1 DEF AlertsWaits, Alerts!Parameters
  <2>4. CASE Alerts!RefreshFails
    <3>1. /\ page'.refreshing = FALSE /\ page'.saving = page.saving
          /\ calls'.refresh = None /\ calls'.save = calls.save
      BY <1>1, <2>4 DEF AlertsPage, AlertsCalls, Alerts!RefreshFails
    <3> QED
      BY <1>1, <3>1 DEF AlertsWaits
  <2>5. CASE Alerts!SaveRunbook
    <3>1. /\ page'.refreshing = page.refreshing /\ page'.saving = TRUE
          /\ calls'.refresh = calls.refresh /\ calls'.save = page.detail.id
          /\ page.detail.id \in Entries
      BY <1>1, <2>5 DEF AlertsPage, AlertsCalls, Alerts!SaveRunbook
    <3> QED
      BY <1>1, <3>1 DEF AlertsWaits, Alerts!Parameters
  <2>6. CASE Alerts!SaveFails
    <3>1. /\ page'.refreshing = page.refreshing /\ page'.saving = FALSE
          /\ calls'.refresh = calls.refresh /\ calls'.save = None
      BY <1>1, <2>6 DEF AlertsPage, AlertsCalls, Alerts!SaveFails
    <3> QED
      BY <1>1, <3>1 DEF AlertsWaits
  <2> QED
    BY <2>1, <2>2, <2>3, <2>4, <2>5, <2>6
<1> QED
  BY <1>2, <1>3, <1>4, <1>5, <1>6 DEF AlertsInv, AlertsTypes

LEMMA AlertsSavedInv ==
  ASSUME Alerts!Parameters, AlertsInv, Alerts!SaveAnswered
  PROVE  AlertsInv'
<1>1. page \in AlertsPage /\ page' = Alerts!Mounted(page, None) /\ calls' = Alerts!Quiet
  BY DEF Alerts!SaveAnswered, AlertsInv, AlertsTypes
<1>2. store' \in AlertsStore
  BY DEF Alerts!SaveAnswered, AlertsInv, AlertsTypes, AlertsStore
<1> QED
  BY <1>1, <1>2, AlertsMountedInv

LEMMA AlertsInitInv == ASSUME Alerts!Parameters PROVE Alerts!Init => AlertsInv
<1> SUFFICES ASSUME Alerts!Init
             PROVE  AlertsInv
  OBVIOUS
<1> DEFINE loading == [status |-> "loading"]
<1>1. loading \in AlertsList /\ loading.status # "success"
  BY DEF AlertsList
<1>2. Alerts!AnyAlert \in Alerts!Queries
  BY DEF Alerts!AnyAlert, Alerts!Queries
<1>3. PICK at \in Entries \cup {None} :
       page = [route |-> at, query |-> Alerts!AnyAlert, known |-> TRUE,
               folders |-> FoldersOf["alerts"],
               writable |-> FoldersOf["alerts"], list |-> loading, detail |-> None,
               timer |-> TRUE, refreshing |-> FALSE, saving |-> FALSE,
               analysis |-> FALSE]
  BY DEF Alerts!Init
<1> HIDE DEF loading
<1>4. /\ page \in AlertsPage /\ page.list = loading /\ page.refreshing = FALSE
      /\ page.saving = FALSE
  BY <1>1, <1>2, <1>3 DEF AlertsPage
<1>5. /\ calls \in AlertsCalls /\ calls.loads = {} /\ calls.refresh = None /\ calls.save = None
  BY DEF Alerts!Init, Alerts!Quiet, AlertsCalls
<1>6. store \in AlertsStore
  BY DEF Alerts!Init, Alerts!Parameters, AlertsStore, Alerts!Statuses
<1> QED
  BY <1>1, <1>4, <1>5, <1>6
  DEF AlertsInv, AlertsTypes, AlertsDetail, AlertsWaits, AlertsCounting, Alerts!Showing

LEMMA AlertsNextInv ==
  ASSUME Alerts!Parameters
  PROVE  AlertsInv /\ [Alerts!Next]_(Alerts!vars) => AlertsInv'
<1>1. AlertsInv /\ UNCHANGED Alerts!vars => AlertsInv'
  BY DEF Alerts!vars, AlertsInv, AlertsTypes, AlertsDetail, AlertsWaits, AlertsCounting,
         Alerts!Showing
<1> QED
  BY <1>1, AlertsScopeInv, AlertsAnswersInv, AlertsOrdersInv, AlertsSavedInv DEF Alerts!Next

\* The page waits for a refresh or a save exactly while there is one, one load counts, and the
\* alert whose detail is shown is one of the list.
THEOREM AlertsWaitForTheirCalls == ASSUME Alerts!Parameters PROVE Alerts!Spec => []Alerts!TypeOK
<1>1. ASSUME AlertsInv PROVE Cardinality({l \in calls.loads : l.current}) <= 1
  <2> DEFINE counting == {l \in calls.loads : l.current}
  <2>1. CASE counting = {}
    BY <2>1, FS_EmptySet
  <2>2. CASE counting # {}
    <3>1. PICK l \in counting : counting \subseteq {l}
      BY <1>1, <2>2 DEF AlertsInv, AlertsCounting
    <3>2. IsFiniteSet({l}) /\ Cardinality({l}) = 1
      BY FS_Singleton
    <3> QED
      BY <3>1, <3>2, FS_Subset
  <2> QED
    BY <2>1, <2>2
<1>2. AlertsInv => Alerts!TypeOK
  BY <1>1 DEF AlertsInv, AlertsTypes, AlertsPage, AlertsStore, AlertsDetail, AlertsWaits,
              Alerts!Showing, Alerts!TypeOK, Alerts!Cardinality, Cardinality
<1> QED
  BY <1>2, AlertsInitInv, AlertsNextInv, PTL DEF Alerts!Spec

-----------------------------------------------------------------------------
(* The fixture of the workbench: sessions that are deleted, for any        *)
(* sessions, folders and requests.  Every request reads the storage and    *)
(* writes it in one step, so nothing is written that was read before.      *)

FixtureInv == DOMAIN store = {"sessions", "used"}

LEMMA FixtureNextInv ==
  ASSUME FixtureInv, Fixture!Next
  PROVE  FixtureInv' /\ Fixture!StaysDeleted
<1>1. CASE store' = store
  BY <1>1 DEF FixtureInv, Fixture!StaysDeleted
<1>2. CASE Fixture!Spoilt
  BY <1>2 DEF Fixture!Spoilt, FixtureInv, Fixture!StaysDeleted
<1>3. ASSUME NEW r, Fixture!CreateSession(r)
      PROVE  FixtureInv' /\ Fixture!StaysDeleted
  BY <1>3 DEF Fixture!CreateSession, Fixture!ReadSessions, FixtureInv, Fixture!StaysDeleted
<1>4. ASSUME NEW r, \/ Fixture!Read(r) \/ Fixture!RenameSession(r) \/ Fixture!ArchiveSession(r)
                    \/ Fixture!DeleteSession(r)
      PROVE  FixtureInv' /\ Fixture!StaysDeleted
  <2>1. PICK sessions :
          /\ store' = [store EXCEPT !.sessions = sessions]
          /\ \/ sessions = store.sessions
             \/ DOMAIN sessions \subseteq DOMAIN Fixture!ReadSessions
    BY <1>4
    DEF Fixture!Read, Fixture!RenameSession, Fixture!ArchiveSession, Fixture!ChangeSession,
        Fixture!DeleteSession, Fixture!Over
  <2> QED
    BY <2>1 DEF Fixture!ReadSessions, FixtureInv, Fixture!StaysDeleted
<1>5. CASE \/ Fixture!Ask \/ \E r \in calls : Fixture!Aborted(r)
           \/ Fixture!StreamMessage \/ Fixture!ResolveInterrupt \/ Fixture!Abort
           \/ Fixture!Waited \/ Fixture!Thrown \/ Fixture!Yield \/ Fixture!Returned
  BY <1>1, <1>5
  DEF Fixture!Ask, Fixture!Send, Fixture!Aborted, Fixture!StreamMessage,
      Fixture!ResolveInterrupt, Fixture!Abort, Fixture!Waited, Fixture!Thrown, Fixture!Yield,
      Fixture!Returned
<1> QED
  BY <1>2, <1>3, <1>4, <1>5 DEF Fixture!Next

LEMMA FixtureAlwaysInv == Fixture!Spec => []FixtureInv
<1>1. Fixture!Init => FixtureInv
  BY DEF Fixture!Init, FixtureInv
<1>2. FixtureInv /\ UNCHANGED Fixture!vars => FixtureInv'
  BY DEF Fixture!vars, FixtureInv
<1>3. FixtureInv /\ [Fixture!Next]_(Fixture!vars) => FixtureInv'
  BY <1>2, FixtureNextInv
<1> QED
  BY <1>1, <1>3, PTL DEF Fixture!Spec

FixtureEvents ==
  {"delay", "message_start", "turn_started", "message_delta", "message_end", "done",
   "tool_call", "tool_result", "folder_changed", "interrupt"}

\* The events of a script, or of what was said.
Events(s) == {s[i] : i \in 1..Len(s)}

\* An event "done" is the last.
DoneIsLast(s) == \A i \in 1..Len(s) : s[i] = "done" => i = Len(s)

\* A script ends a turn with its last event, after a message, or it asks for an approval.
FixtureScript(s) ==
  /\ s \in Seq(FixtureEvents) /\ s # <<>> /\ DoneIsLast(s)
  /\ "done" \in Events(s) <=> "interrupt" \notin Events(s)
  /\ "done" \in Events(s) => {"message_end", "message_delta"} \subseteq Events(s)

FixturePage ==
  [script: Seq(FixtureEvents), said: Seq(FixtureEvents), reading: BOOLEAN, aborted: BOOLEAN,
   pending: BOOLEAN]

FixtureAll == Events(page.said) \cup Events(page.script)

\* A stream that is read, or that nobody aborted, ends the turn or asks for an approval.
FixtureOneEnd ==
  (page.reading \/ ~page.aborted) /\ FixtureAll # {} =>
    ("done" \in FixtureAll <=> "interrupt" \notin FixtureAll)

FixtureStream ==
  /\ page \in FixturePage
  /\ ~page.reading => page.script = <<>>
  /\ page.pending <=> "interrupt" \in Events(page.said)
  /\ "done" \in FixtureAll => {"message_end", "message_delta"} \subseteq FixtureAll
  /\ FixtureOneEnd
  /\ "done" \in Events(page.said) => page.script = <<>>
  /\ DoneIsLast(page.script)

LEMMA EventsConcat ==
  ASSUME NEW s \in Seq(FixtureEvents), NEW t \in Seq(FixtureEvents)
  PROVE  s \o t \in Seq(FixtureEvents) /\ Events(s \o t) = Events(s) \cup Events(t)
<1>1. /\ s \o t \in Seq(FixtureEvents) /\ Len(s \o t) = Len(s) + Len(t)
      /\ \A i \in 1..Len(s) : (s \o t)[i] = s[i]
      /\ \A i \in 1..Len(t) : (s \o t)[Len(s) + i] = t[i]
  OBVIOUS
<1>2. \A i \in 1..Len(s) : i \in 1..Len(s \o t)
  BY <1>1
<1>3. \A i \in 1..Len(t) : Len(s) + i \in 1..Len(s \o t)
  BY <1>1
<1>4. Events(s) \cup Events(t) \subseteq Events(s \o t)
  BY <1>1, <1>2, <1>3 DEF Events
<1>5. ASSUME NEW i \in 1..Len(s \o t)
      PROVE  (s \o t)[i] \in Events(s) \cup Events(t)
  <2>1. CASE i \in 1..Len(s)
    BY <1>1, <2>1 DEF Events
  <2>2. CASE i - Len(s) \in 1..Len(t)
    BY <1>1, <2>2 DEF Events
  <2> QED
    BY <1>1, <2>1, <2>2
<1> QED
  BY <1>1, <1>4, <1>5 DEF Events

LEMMA DoneStaysLast ==
  ASSUME NEW s \in Seq(FixtureEvents), NEW t \in Seq(FixtureEvents), "done" \notin Events(s), DoneIsLast(t)
  PROVE  DoneIsLast(s \o t)
<1>1. /\ Len(s \o t) = Len(s) + Len(t)
      /\ \A i \in 1..Len(s) : (s \o t)[i] = s[i]
      /\ \A i \in 1..Len(t) : (s \o t)[Len(s) + i] = t[i]
  OBVIOUS
<1> SUFFICES ASSUME NEW i \in 1..Len(s \o t), (s \o t)[i] = "done"
             PROVE  i = Len(s \o t)
  BY DEF DoneIsLast
<1>2. i \notin 1..Len(s)
  BY <1>1 DEF Events
<1>3. i - Len(s) \in 1..Len(t) /\ t[i - Len(s)] = "done"
  BY <1>1, <1>2
<1> QED
  BY <1>1, <1>3 DEF DoneIsLast

LEMMA EventsOfTwo ==
  ASSUME NEW a \in FixtureEvents, NEW b \in FixtureEvents
  PROVE  <<a, b>> \in Seq(FixtureEvents) /\ Events(<<a, b>>) = {a, b}
<1> DEFINE s == <<a, b>>
<1>1. s \in Seq(FixtureEvents) /\ Len(s) = 2 /\ s[1] = a /\ s[2] = b
  OBVIOUS
<1>2. 1..2 = {1, 2}
  OBVIOUS
<1> HIDE DEF s
<1>3. Events(s) = {a, b}
  BY <1>1, <1>2 DEF Events
<1> QED
  BY <1>1, <1>3 DEF s

LEMMA EventsOfOne ==
  ASSUME NEW a \in FixtureEvents
  PROVE  <<a>> \in Seq(FixtureEvents) /\ Events(<<a>>) = {a}
<1> DEFINE s == <<a>>
<1>1. s \in Seq(FixtureEvents) /\ Len(s) = 1 /\ s[1] = a
  OBVIOUS
<1>2. 1..1 = {1}
  OBVIOUS
<1> HIDE DEF s
<1>3. Events(s) = {a}
  BY <1>1, <1>2 DEF Events
<1> QED
  BY <1>1, <1>3 DEF s

LEMMA FixturePieces ==
  /\ Fixture!Started \in Seq(FixtureEvents) /\ Events(Fixture!Started) = {"message_start", "turn_started"}
  /\ Fixture!Ended \in Seq(FixtureEvents) /\ Events(Fixture!Ended) = {"message_end", "done"}
  /\ Fixture!Text \in Seq(FixtureEvents) /\ Events(Fixture!Text) = {"delay", "message_delta"}
  /\ Fixture!Tool \in Seq(FixtureEvents) /\ Events(Fixture!Tool) = {"tool_call", "delay", "tool_result"}
  /\ DoneIsLast(Fixture!Ended)
<1>1. /\ Fixture!Tool \in Seq(FixtureEvents) /\ Events(Fixture!Tool) = {"tool_call", "delay", "tool_result"}
  <2> DEFINE b == <<"tool_call", "delay">>
             c == <<"tool_result">>
  <2>1. Fixture!Tool = b \o c
    BY DEF Fixture!Tool
  <2>2. /\ b \in Seq(FixtureEvents) /\ Events(b) = {"tool_call", "delay"}
        /\ c \in Seq(FixtureEvents) /\ Events(c) = {"tool_result"}
    BY EventsOfTwo, EventsOfOne DEF FixtureEvents
  <2> HIDE DEF b, c
  <2> QED
    BY <2>1, <2>2, EventsConcat
<1>2. DoneIsLast(Fixture!Ended)
  BY DEF Fixture!Ended, DoneIsLast
<1> QED
  BY <1>1, <1>2, EventsOfTwo DEF Fixture!Started, Fixture!Ended, Fixture!Text, FixtureEvents

\* What ends a turn, after any events of another kind and a message.
LEMMA FixtureEnds ==
  ASSUME NEW s \in Seq(FixtureEvents), "message_delta" \in Events(s),
         "done" \notin Events(s), "interrupt" \notin Events(s)
  PROVE  FixtureScript(s \o Fixture!Ended)
<1>1. /\ s \o Fixture!Ended \in Seq(FixtureEvents)
      /\ Events(s \o Fixture!Ended) = Events(s) \cup {"message_end", "done"}
      /\ DoneIsLast(s \o Fixture!Ended)
  BY EventsConcat, DoneStaysLast, FixturePieces
<1>2. s \o Fixture!Ended # <<>>
  BY <1>1 DEF Events
<1> QED
  BY <1>1, <1>2 DEF FixtureScript

LEMMA FixtureBegins ==
  ASSUME NEW s, FixtureScript(s), NEW b \in Seq(FixtureEvents),
         "done" \notin Events(b), "interrupt" \notin Events(b)
  PROVE  FixtureScript(b \o s)
<1>1. /\ b \o s \in Seq(FixtureEvents) /\ Events(b \o s) = Events(b) \cup Events(s)
      /\ DoneIsLast(b \o s)
  BY EventsConcat, DoneStaysLast DEF FixtureScript
<1>2. b \o s # <<>>
  BY <1>1 DEF FixtureScript, Events
<1> QED
  BY <1>1, <1>2 DEF FixtureScript

LEMMA FixtureStarts ==
  ASSUME NEW s, FixtureScript(s)
  PROVE  FixtureScript(Fixture!Started \o s) /\ FixtureScript(Fixture!Text \o s)
<1>1. /\ Fixture!Started \in Seq(FixtureEvents) /\ "done" \notin Events(Fixture!Started)
      /\ "interrupt" \notin Events(Fixture!Started)
  BY FixturePieces
<1>2. /\ Fixture!Text \in Seq(FixtureEvents) /\ "done" \notin Events(Fixture!Text)
      /\ "interrupt" \notin Events(Fixture!Text)
  BY FixturePieces
<1> QED
  BY <1>1, <1>2, FixtureBegins

LEMMA FixtureReplyIsScript ==
  ASSUME NEW way \in Fixture!Routes, NEW f
  PROVE  FixtureScript(Fixture!Reply(way, f))
<1> DEFINE reply == Fixture!Reply(way, f)
<1>1. CASE way = "switch_folder"
  <2> DEFINE c == <<"folder_changed">>
             changed == Fixture!Text \o c
  <2>1. c \in Seq(FixtureEvents) /\ Events(c) = {"folder_changed"}
    BY EventsOfOne DEF FixtureEvents
  <2> HIDE DEF c
  <2>2. changed \in Seq(FixtureEvents) /\ Events(changed) = {"delay", "message_delta", "folder_changed"}
    BY <2>1, FixturePieces, EventsConcat
  <2>3. FixtureScript(changed \o Fixture!Ended)
    BY <2>2, FixtureEnds
  <2>4. reply = Fixture!Started \o (changed \o Fixture!Ended)
    BY <1>1 DEF Fixture!Reply, c
  <2> HIDE DEF changed, reply
  <2>5. FixtureScript(Fixture!Started \o (changed \o Fixture!Ended))
    BY <2>3, FixtureStarts
  <2> QED
    BY <2>4, <2>5 DEF reply
<1>2. CASE way = "fallback" \/ (way = "write" /\ f = None)
  <2>1. FixtureScript(Fixture!Text \o Fixture!Ended)
    BY FixturePieces, FixtureEnds
  <2>2. reply = Fixture!Started \o (Fixture!Text \o Fixture!Ended)
    BY <1>2 DEF Fixture!Reply
  <2> HIDE DEF reply
  <2>3. FixtureScript(Fixture!Started \o (Fixture!Text \o Fixture!Ended))
    BY <2>1, FixtureStarts
  <2> QED
    BY <2>2, <2>3 DEF reply
<1>3. CASE way = "write" /\ f # None
  <2> DEFINE asked == <<"tool_call", "interrupt">>
  <2>1. asked \in Seq(FixtureEvents) /\ Events(asked) = {"tool_call", "interrupt"}
    BY EventsOfTwo DEF FixtureEvents
  <2>2. asked # <<>>
    OBVIOUS
  <2> HIDE DEF asked
  <2>6. DoneIsLast(asked)
    BY <2>1 DEF DoneIsLast, Events
  <2>7. FixtureScript(asked)
    BY <2>1, <2>2, <2>6 DEF FixtureScript
  <2>3. FixtureScript(Fixture!Text \o asked)
    BY <2>7, FixtureStarts
  <2>4. reply = Fixture!Started \o (Fixture!Text \o asked)
    BY <1>3 DEF Fixture!Reply, asked
  <2> HIDE DEF reply
  <2>5. FixtureScript(Fixture!Started \o (Fixture!Text \o asked))
    BY <2>3, FixtureStarts
  <2> QED
    BY <2>4, <2>5 DEF reply
<1>4. CASE way \in {"slash", "error_rate", "latency"}
  <2> DEFINE told == (Fixture!Text \o Fixture!Tool) \o Fixture!Text
  <2>1. /\ Fixture!Text \o Fixture!Tool \in Seq(FixtureEvents)
        /\ Events(Fixture!Text \o Fixture!Tool)
             = {"delay", "message_delta", "tool_call", "tool_result"}
    BY FixturePieces, EventsConcat
  <2>2. told \in Seq(FixtureEvents) /\ Events(told) = {"delay", "message_delta", "tool_call", "tool_result"}
    BY <2>1, FixturePieces, EventsConcat
  <2>3. FixtureScript(told \o Fixture!Ended)
    BY <2>2, FixtureEnds
  <2>4. reply = Fixture!Started \o (told \o Fixture!Ended)
    BY <1>4 DEF Fixture!Reply
  <2> HIDE DEF told, reply
  <2>5. FixtureScript(Fixture!Started \o (told \o Fixture!Ended))
    BY <2>3, FixtureStarts
  <2> QED
    BY <2>4, <2>5 DEF reply
<1> QED
  BY <1>1, <1>2, <1>3, <1>4 DEF Fixture!Routes

LEMMA FixtureResolutionIsScript == FixtureScript(Fixture!Resolution)
<1> DEFINE told == <<"tool_result", "message_start">> \o Fixture!Text
<1> DEFINE begun == <<"tool_result", "message_start">>
<1>3. begun \in Seq(FixtureEvents) /\ Events(begun) = {"tool_result", "message_start"}
  BY EventsOfTwo DEF FixtureEvents
<1> HIDE DEF begun
<1>4. begun \o Fixture!Text \in Seq(FixtureEvents)
      /\ Events(begun \o Fixture!Text) = {"tool_result", "message_start", "delay", "message_delta"}
  BY <1>3, EventsConcat, FixturePieces
<1>1. told \in Seq(FixtureEvents)
      /\ Events(told) = {"tool_result", "message_start", "delay", "message_delta"}
  BY <1>4 DEF begun
<1>2. Fixture!Resolution = told \o Fixture!Ended
  BY DEF Fixture!Resolution
<1> HIDE DEF told
<1> QED
  BY <1>1, <1>2, FixtureEnds

FixtureRequests ==
  [op: {"list"}] \cup [op: {"create", "context"}, folder: FoldersOf["fixture"] \cup {None}]
    \cup [op: {"open", "rename", "archive", "delete"}, session: Fixture!Sessions]

\* The sessions are of identifiers that were given out.
FixtureGiven ==
  /\ DOMAIN store = {"sessions", "used"}
  /\ store.sessions # None => DOMAIN store.sessions \subseteq Seeded \cup store.used

FixtureTypes == FixtureGiven /\ FixtureStream /\ calls \subseteq FixtureRequests

LEMMA FixtureStreamStays == ASSUME FixtureStream, page' = page PROVE FixtureStream'
  BY DEF FixtureStream, FixtureOneEnd, FixtureAll

LEMMA FixtureStoreStep ==
  ASSUME FixtureTypes,
         \/ Fixture!Spoilt
         \/ \E r \in calls :
              \/ Fixture!Aborted(r) \/ Fixture!Read(r) \/ Fixture!CreateSession(r)
              \/ Fixture!RenameSession(r) \/ Fixture!ArchiveSession(r) \/ Fixture!DeleteSession(r)
  PROVE  FixtureTypes'
<1>1. page' = page /\ calls' \subseteq calls
  BY DEF Fixture!Spoilt, Fixture!Aborted, Fixture!Read, Fixture!CreateSession,
         Fixture!RenameSession, Fixture!ArchiveSession, Fixture!ChangeSession,
         Fixture!DeleteSession, Fixture!Over
<1>2. DOMAIN Fixture!ReadSessions \subseteq Seeded \cup store.used
  BY DEF FixtureTypes, FixtureGiven, Fixture!ReadSessions, Fixture!SeededSessions
<1>3. ASSUME Fixture!Spoilt PROVE FixtureGiven'
  BY <1>3 DEF Fixture!Spoilt, FixtureTypes, FixtureGiven
<1>4. ASSUME NEW r \in calls, Fixture!Aborted(r)
      PROVE  FixtureGiven'
  BY <1>4 DEF Fixture!Aborted, FixtureTypes, FixtureGiven
<1>5. ASSUME NEW r \in calls, Fixture!CreateSession(r)
      PROVE  FixtureGiven'
  <2>1. PICK s \in Added \ store.used :
          store' = [sessions |-> [t \in DOMAIN Fixture!ReadSessions \cup {s} |->
                      IF t = s THEN Fixture!NewSession(r.folder) ELSE Fixture!ReadSessions[t]],
                    used |-> store.used \cup {s}]
    BY <1>5 DEF Fixture!CreateSession
  <2>2. /\ DOMAIN store' = {"sessions", "used"} /\ store'.used = store.used \cup {s}
        /\ DOMAIN store'.sessions = DOMAIN Fixture!ReadSessions \cup {s}
    BY <2>1
  <2> QED
    BY <1>2, <2>2 DEF FixtureGiven
<1>6. ASSUME NEW r \in calls,
             \/ Fixture!Read(r) \/ Fixture!RenameSession(r) \/ Fixture!ArchiveSession(r)
             \/ Fixture!DeleteSession(r)
      PROVE  FixtureGiven'
  <2>1. PICK sessions :
          /\ store' = [store EXCEPT !.sessions = sessions]
          /\ \/ sessions = store.sessions
             \/ DOMAIN sessions \subseteq DOMAIN Fixture!ReadSessions
    BY <1>6
    DEF Fixture!Read, Fixture!RenameSession, Fixture!ArchiveSession, Fixture!ChangeSession,
        Fixture!DeleteSession, Fixture!Over
  <2> QED
    BY <1>2, <2>1 DEF FixtureTypes, FixtureGiven
<1>7. FixtureGiven'
  BY <1>3, <1>4, <1>5, <1>6 DEF FixtureTypes
<1> QED
  BY <1>1, <1>7, FixtureStreamStays DEF FixtureTypes

LEMMA FixtureAskStep ==
  ASSUME FixtureTypes, Fixture!Ask
  PROVE  FixtureTypes'
<1>1. page' = page /\ store' = store
  BY DEF Fixture!Ask, Fixture!Send
<1>2. \A request : Fixture!Send(request) => calls' = calls \cup {request}
  BY DEF Fixture!Send
<1>3. [op |-> "list"] \in FixtureRequests
  BY DEF FixtureRequests
<1>4. \A f \in FoldersOf["fixture"] \cup {None}, op \in {"create", "context"} :
        [op |-> op, folder |-> f] \in FixtureRequests
  BY DEF FixtureRequests
<1>5. \A s \in Fixture!Sessions, op \in {"open", "rename", "archive", "delete"} :
        [op |-> op, session |-> s] \in FixtureRequests
  BY DEF FixtureRequests
<1>6. PICK request \in FixtureRequests : Fixture!Send(request)
  <2>1. CASE Fixture!Send([op |-> "list"])
    BY <1>3, <2>1
  <2>2. CASE \E f \in FoldersOf["fixture"] \cup {None} : Fixture!Send([op |-> "create", folder |-> f])
    BY <1>4, <2>2
  <2>3. CASE \E s \in Fixture!Sessions, op \in {"open", "rename", "archive", "delete"} :
               Fixture!Send([op |-> op, session |-> s])
    BY <1>5, <2>3
  <2>4. CASE \E f \in FoldersOf["fixture"] : Fixture!Send([op |-> "context", folder |-> f])
    BY <1>4, <2>4
  <2> QED
    BY <2>1, <2>2, <2>3, <2>4 DEF Fixture!Ask
<1>7. calls' \subseteq FixtureRequests
  BY <1>2, <1>6 DEF FixtureTypes
<1> QED
  BY <1>1, <1>7, FixtureStreamStays DEF FixtureTypes, FixtureGiven

LEMMA FixtureOpenStep ==
  ASSUME FixtureTypes, Fixture!StreamMessage \/ Fixture!ResolveInterrupt
  PROVE  FixtureTypes'
<1>1. PICK script :
        /\ FixtureScript(script)
        /\ \/ ~page.pending /\ page' = Fixture!Opened(script)
           \/ page' = [Fixture!Opened(script) EXCEPT !.pending = FALSE]
  BY FixtureReplyIsScript, FixtureResolutionIsScript
  DEF Fixture!StreamMessage, Fixture!ResolveInterrupt
<1>2. /\ page \in FixturePage /\ script \in Seq(FixtureEvents) /\ <<>> \in Seq(FixtureEvents)
      /\ Events(<<>>) = {}
  BY <1>1 DEF FixtureTypes, FixtureStream, FixtureScript, Events
<1>3. /\ Fixture!Opened(script) \in FixturePage /\ Fixture!Opened(script).script = script
      /\ Fixture!Opened(script).said = <<>> /\ Fixture!Opened(script).reading = TRUE
      /\ Fixture!Opened(script).pending = page.pending
  BY <1>2 DEF Fixture!Opened, FixturePage
<1>4. /\ page' \in FixturePage /\ page'.script = script /\ page'.said = <<>>
      /\ page'.reading = TRUE /\ page'.pending = FALSE
  BY <1>1, <1>3 DEF FixturePage
<1>5. FixtureAll' = Events(script)
  BY <1>2, <1>4 DEF FixtureAll
<1>6. FixtureStream'
  BY <1>1, <1>2, <1>4, <1>5 DEF FixtureStream, FixtureOneEnd, FixtureScript
<1> QED
  BY <1>6 DEF Fixture!StreamMessage, Fixture!ResolveInterrupt, FixtureTypes, FixtureGiven

LEMMA EventsSplit ==
  ASSUME NEW s \in Seq(FixtureEvents), s # <<>>
  PROVE  /\ Head(s) \in FixtureEvents /\ Tail(s) \in Seq(FixtureEvents)
         /\ Events(s) = {Head(s)} \cup Events(Tail(s))
         /\ DoneIsLast(s) => DoneIsLast(Tail(s)) /\ (Head(s) = "done" => Tail(s) = <<>>)
<1>1. /\ Head(s) = s[1] /\ 1 \in 1..Len(s) /\ Tail(s) \in Seq(FixtureEvents)
      /\ Len(Tail(s)) = Len(s) - 1 /\ \A i \in 1..Len(Tail(s)) : Tail(s)[i] = s[i + 1]
      /\ Len(s) \in Nat /\ Head(s) \in FixtureEvents
  OBVIOUS
<1>6. Len(Tail(s)) = Len(s) - 1 /\ Len(s) \in Nat
  BY <1>1
<1>2. \A i \in 1..Len(Tail(s)) : i + 1 \in 1..Len(s) /\ s[i + 1] = Tail(s)[i]
  BY <1>1
<1>3. \A i \in 1..Len(s) : i = 1 \/ (i - 1 \in 1..Len(Tail(s)) /\ s[i] = Tail(s)[i - 1])
  BY <1>1
<1>4. Events(s) = {Head(s)} \cup Events(Tail(s))
  BY <1>1, <1>2, <1>3 DEF Events
<1>5. ASSUME DoneIsLast(s)
      PROVE  DoneIsLast(Tail(s)) /\ (Head(s) = "done" => Tail(s) = <<>>)
  <2>1. ASSUME NEW i \in 1..Len(Tail(s)), Tail(s)[i] = "done"
        PROVE  i = Len(Tail(s))
    <3>1. i + 1 \in 1..Len(s) /\ s[i + 1] = "done"
      BY <1>2, <2>1
    <3>2. i + 1 = Len(s)
      BY <1>5, <3>1 DEF DoneIsLast
    <3> DEFINE m == Len(Tail(s))
               n == Len(s)
    <3>3. m = n - 1 /\ n \in Nat /\ i \in 1..m /\ i + 1 = n
      BY <1>6, <3>2
    <3> HIDE DEF m, n
    <3>4. i = m
      BY <3>3
    <3> QED
      BY <3>4 DEF m
  <2>2. s[1] = "done" => 1 = Len(s)
    BY <1>1, <1>5, Zenon DEF DoneIsLast
  <2>3. Head(s) = "done" => Len(Tail(s)) = 0
    BY <1>1, <2>2
  <2>4. DoneIsLast(Tail(s))
    BY <2>1 DEF DoneIsLast
  <2> QED
    BY <1>1, <2>3, <2>4
<1> QED
  BY <1>1, <1>4, <1>5

\* What is waited for is dropped from the script, and what is yielded is said.
LEMMA FixtureHeadStep ==
  ASSUME FixtureStream, Fixture!Waited \/ Fixture!Yield
  PROVE  FixtureStream'
<1> DEFINE event == Head(page.script)
           rest == Tail(page.script)
<1>1. /\ page \in FixturePage /\ page.script \in Seq(FixtureEvents)
      /\ page.said \in Seq(FixtureEvents) /\ page.reading /\ page.script # <<>>
      /\ DoneIsLast(page.script) /\ "done" \notin Events(page.said)
  BY DEF FixtureStream, FixturePage, Fixture!Waited, Fixture!Yield
<1>2. /\ event \in FixtureEvents /\ rest \in Seq(FixtureEvents)
      /\ Events(page.script) = {event} \cup Events(rest)
      /\ DoneIsLast(rest) /\ (event = "done" => rest = <<>>)
  BY <1>1, EventsSplit
<1>3. CASE Fixture!Waited
  <2>1. event = "delay" /\ page' = [page EXCEPT !.script = rest]
    BY <1>3 DEF Fixture!Waited
  <2> HIDE DEF event, rest
  <2>2. /\ page' \in FixturePage /\ page'.script = rest /\ page'.said = page.said
        /\ page'.reading /\ page'.aborted = page.aborted /\ page'.pending = page.pending
    BY <1>1, <1>2, <2>1 DEF FixturePage
  <2>3. FixtureAll = FixtureAll' \cup {"delay"}
    BY <1>2, <2>1, <2>2 DEF FixtureAll
  <2>4. FixtureOneEnd'
    BY <1>1, <2>2, <2>3 DEF FixtureStream, FixtureOneEnd
  <2> QED
    BY <1>1, <1>2, <2>2, <2>3, <2>4 DEF FixtureStream
<1>4. CASE Fixture!Yield
  <2>1. page' = [page EXCEPT !.said = Append(page.said, event), !.script = rest,
                             !.pending = @ \/ event = "interrupt"]
    BY <1>4 DEF Fixture!Yield
  <2>2. Append(page.said, event) = page.said \o <<event>>
    BY <1>1, <1>2
  <2>3. <<event>> \in Seq(FixtureEvents) /\ Events(<<event>>) = {event}
    BY <1>2, EventsOfOne
  <2> DEFINE more == <<event>>
             pending == page.pending \/ event = "interrupt"
  <2> HIDE DEF event, rest, more, pending
  <2>4. page.said \o more \in Seq(FixtureEvents)
        /\ Events(page.said \o more) = Events(page.said) \cup {event}
    BY <1>1, <2>3, EventsConcat DEF more
  <2>5. page' = [page EXCEPT !.said = page.said \o more, !.script = rest, !.pending = pending]
    BY <2>1, <2>2 DEF more, pending
  <2>6. pending \in BOOLEAN
    BY DEF pending
  <2>7. /\ page' \in FixturePage /\ page'.script = rest /\ page'.said = page.said \o more
        /\ page'.reading /\ page'.aborted = page.aborted /\ page'.pending = pending
    BY <1>1, <1>2, <2>4, <2>5, <2>6 DEF FixturePage
  <2>8. FixtureAll' = FixtureAll
    BY <1>2, <2>4, <2>7 DEF FixtureAll
  <2>9. FixtureOneEnd'
    BY <1>1, <2>7, <2>8 DEF FixtureStream, FixtureOneEnd
  <2>10. page'.pending <=> "interrupt" \in Events(page'.said)
    BY <2>4, <2>7 DEF FixtureStream, pending
  <2> QED
    BY <1>1, <1>2, <2>4, <2>7, <2>8, <2>9, <2>10 DEF FixtureStream
<1> QED
  BY <1>3, <1>4

LEMMA FixtureReadStep ==
  ASSUME FixtureTypes,
         Fixture!Abort \/ Fixture!Waited \/ Fixture!Thrown \/ Fixture!Yield \/ Fixture!Returned
  PROVE  FixtureTypes'
<1>1. store' = store /\ calls' = calls
  BY DEF Fixture!Abort, Fixture!Waited, Fixture!Thrown, Fixture!Yield, Fixture!Returned
<1>2. FixtureStream /\ page \in FixturePage
  BY DEF FixtureTypes, FixtureStream
<1>3. Events(<<>>) = {} /\ DoneIsLast(<<>>) /\ <<>> \in Seq(FixtureEvents)
  BY DEF Events, DoneIsLast
<1>4. ASSUME Fixture!Abort PROVE FixtureStream'
  <2>1. /\ page' \in FixturePage /\ page'.script = page.script /\ page'.said = page.said
        /\ page'.reading = page.reading /\ page'.pending = page.pending /\ page.reading
    BY <1>2, <1>4 DEF Fixture!Abort, FixturePage
  <2>2. FixtureAll' = FixtureAll
    BY <2>1 DEF FixtureAll
  <2>3. FixtureOneEnd'
    BY <1>2, <2>1, <2>2 DEF FixtureStream, FixtureOneEnd
  <2> QED
    BY <1>2, <2>1, <2>2, <2>3 DEF FixtureStream
<1>5. ASSUME Fixture!Thrown PROVE FixtureStream'
  <2>1. /\ page' = [page EXCEPT !.script = <<>>, !.reading = FALSE]
        /\ page.script # <<>> /\ page.aborted
    BY <1>5 DEF Fixture!Thrown
  <2>2. /\ page' \in FixturePage /\ page'.script = <<>> /\ page'.said = page.said
        /\ page'.reading = FALSE /\ page'.aborted = page.aborted /\ page'.pending = page.pending
    BY <1>2, <1>3, <2>1 DEF FixturePage
  <2>3. "done" \notin Events(page.said)
    BY <1>2, <2>1 DEF FixtureStream
  <2>4. "done" \notin FixtureAll'
    BY <1>3, <2>2, <2>3 DEF FixtureAll
  <2>5. FixtureOneEnd'
    BY <2>1, <2>2 DEF FixtureOneEnd
  <2> QED
    BY <1>2, <1>3, <2>2, <2>3, <2>4, <2>5 DEF FixtureStream
<1>6. ASSUME Fixture!Returned PROVE FixtureStream'
  <2>1. /\ page' \in FixturePage /\ page'.script = page.script /\ page'.said = page.said
        /\ page'.aborted = page.aborted /\ page'.pending = page.pending
        /\ page.script = <<>> /\ page.reading
    BY <1>2, <1>6 DEF Fixture!Returned, FixturePage
  <2>2. FixtureAll' = FixtureAll
    BY <2>1 DEF FixtureAll
  <2>3. FixtureOneEnd'
    BY <1>2, <2>1, <2>2 DEF FixtureStream, FixtureOneEnd
  <2> QED
    BY <1>2, <2>1, <2>2, <2>3 DEF FixtureStream
<1>7. ASSUME Fixture!Waited \/ Fixture!Yield PROVE FixtureStream'
  BY <1>2, <1>7, FixtureHeadStep
<1>8. FixtureStream'
  BY <1>4, <1>5, <1>6, <1>7
<1> QED
  BY <1>1, <1>8 DEF FixtureTypes, FixtureGiven

LEMMA FixtureTypesStay == FixtureTypes /\ [Fixture!Next]_(Fixture!vars) => FixtureTypes'
<1>1. FixtureTypes /\ UNCHANGED Fixture!vars => FixtureTypes'
  BY FixtureStreamStays DEF Fixture!vars, FixtureTypes, FixtureGiven
<1> QED
  BY <1>1, FixtureAskStep, FixtureStoreStep, FixtureOpenStep, FixtureReadStep DEF Fixture!Next

LEMMA FixtureTypesBegin == Fixture!Init => FixtureTypes
<1>1. Events(<<>>) = {} /\ DoneIsLast(<<>>) /\ <<>> \in Seq(FixtureEvents)
  BY DEF Events, DoneIsLast
<1>2. ASSUME Fixture!Init PROVE FixtureStream
  <2>1. /\ page \in FixturePage /\ page.script = <<>> /\ page.said = <<>> /\ page.pending = FALSE
    BY <1>1, <1>2 DEF Fixture!Init, FixturePage
  <2> QED
    BY <1>1, <2>1 DEF FixtureStream, FixtureOneEnd, FixtureAll
<1> QED
  BY <1>2 DEF Fixture!Init, FixtureTypes, FixtureGiven

\* A turn that was read to its end without an abort ended, with a message, or waits for approval.
THEOREM FixtureTurnsEnd == Fixture!Spec => []Fixture!TypeOK
<1>1. ASSUME FixtureTypes PROVE Fixture!TypeOK
  <2>1. \A e : Fixture!Said(e) <=> e \in Events(page.said)
    BY DEF Fixture!Said, Events
  <2>2. ASSUME page.script = <<>> PROVE Events(page.script) = {}
    BY <2>2 DEF Events
  <2>3. page.said # <<>> => Events(page.said) # {}
    BY <1>1 DEF Events, FixtureTypes, FixtureStream, FixturePage
  <2>4. store.sessions # None => DOMAIN store.sessions \subseteq Seeded \cup store.used
    BY <1>1 DEF FixtureTypes, FixtureGiven
  <2>5. ~page.reading /\ page.said # <<>> /\ ~page.aborted => Fixture!Said("done") # page.pending
    BY <1>1, <2>1, <2>2, <2>3
    DEF FixtureTypes, FixtureStream, FixturePage, FixtureOneEnd, FixtureAll
  <2>6. Fixture!Said("done") => Fixture!Said("message_end") /\ Fixture!Said("message_delta")
    BY <1>1, <2>1, <2>2 DEF FixtureTypes, FixtureStream, FixtureAll
  <2> QED
    BY <1>1, <2>4, <2>5, <2>6 DEF Fixture!TypeOK, FixtureTypes, FixtureRequests
<1> QED
  BY <1>1, FixtureTypesBegin, FixtureTypesStay, PTL DEF Fixture!Spec

-----------------------------------------------------------------------------
(* The plugin.  It stays at the page that is mounted, which takes its own  *)
(* steps: so what holds of a page holds of the plugin while it is mounted, *)
(* and of the other pages a property of this one says nothing.             *)

LEMMA MountedStays == [Next]_vars => mounted' = mounted
  BY DEF Next, vars, OnPage, OnSessions, OnCanvas

LEMMA SessionsIsMounted == Spec => (mounted = "sessions" => Sessions!Spec)
<1>1. Init /\ mounted = "sessions" => Sessions!Init
  BY DEF Init, PageInit
<1>2. mounted = "sessions" /\ [Next]_vars
        => [Sessions!Next]_(Sessions!vars) /\ (mounted = "sessions")'
  <2> SUFFICES ASSUME mounted = "sessions", [Next]_vars
               PROVE  [Sessions!Next]_(Sessions!vars) /\ mounted' = mounted
    OBVIOUS
  <2>1. CASE Next
    BY <2>1 DEF Next, OnPage, OnSessions, OnCanvas
  <2>2. CASE UNCHANGED vars
    BY <2>2 DEF vars, sessionVars, Sessions!vars, Sessions!pageVars,
               Sessions!callVars
  <2> QED
    BY <2>1, <2>2
<1> QED
  BY <1>1, <1>2, PTL DEF Spec, Sessions!Spec

LEMMA KeyedSessionsIsMounted == Spec => (mounted = "keyed sessions" => KeyedSessions!Spec)
<1>1. Init /\ mounted = "keyed sessions" => KeyedSessions!Init
  BY DEF Init, PageInit
<1>2. mounted = "keyed sessions" /\ [Next]_vars
        => [KeyedSessions!Next]_(KeyedSessions!vars) /\ (mounted = "keyed sessions")'
  <2> SUFFICES ASSUME mounted = "keyed sessions", [Next]_vars
               PROVE  [KeyedSessions!Next]_(KeyedSessions!vars) /\ mounted' = mounted
    OBVIOUS
  <2>1. CASE Next
    BY <2>1 DEF Next, OnPage, OnSessions, OnCanvas
  <2>2. CASE UNCHANGED vars
    BY <2>2 DEF vars, sessionVars, KeyedSessions!vars, KeyedSessions!pageVars,
               KeyedSessions!callVars
  <2> QED
    BY <2>1, <2>2
<1> QED
  BY <1>1, <1>2, PTL DEF Spec, KeyedSessions!Spec

LEMMA DrawerIsMounted == Spec => (mounted = "drawer" => Drawer!Spec)
<1>1. Init /\ mounted = "drawer" => Drawer!Init
  BY DEF Init, PageInit
<1>2. mounted = "drawer" /\ [Next]_vars
        => [Drawer!Next]_(Drawer!vars) /\ (mounted = "drawer")'
  <2> SUFFICES ASSUME mounted = "drawer", [Next]_vars
               PROVE  [Drawer!Next]_(Drawer!vars) /\ mounted' = mounted
    OBVIOUS
  <2>1. CASE Next
    BY <2>1 DEF Next, OnPage, OnSessions, OnCanvas
  <2>2. CASE UNCHANGED vars
    BY <2>2 DEF vars, pageVars, Drawer!vars
  <2> QED
    BY <2>1, <2>2
<1> QED
  BY <1>1, <1>2, PTL DEF Spec, Drawer!Spec

LEMMA ShellIsMounted == Spec => (mounted = "shell" => Shell!Spec)
<1>1. Init /\ mounted = "shell" => Shell!Init
  BY DEF Init, PageInit
<1>2. mounted = "shell" /\ [Next]_vars
        => [Shell!Next]_(Shell!vars) /\ (mounted = "shell")'
  <2> SUFFICES ASSUME mounted = "shell", [Next]_vars
               PROVE  [Shell!Next]_(Shell!vars) /\ mounted' = mounted
    OBVIOUS
  <2>1. CASE Next
    BY <2>1 DEF Next, OnPage, OnSessions, OnCanvas
  <2>2. CASE UNCHANGED vars
    BY <2>2 DEF vars, pageVars, Shell!vars
  <2> QED
    BY <2>1, <2>2
<1> QED
  BY <1>1, <1>2, PTL DEF Spec, Shell!Spec

LEMMA KnowledgeIsMounted == Spec => (mounted = "knowledge" => Knowledge!Spec)
<1>1. Init /\ mounted = "knowledge" => Knowledge!Init
  BY DEF Init, PageInit
<1>2. mounted = "knowledge" /\ [Next]_vars
        => [Knowledge!Next]_(Knowledge!vars) /\ (mounted = "knowledge")'
  <2> SUFFICES ASSUME mounted = "knowledge", [Next]_vars
               PROVE  [Knowledge!Next]_(Knowledge!vars) /\ mounted' = mounted
    OBVIOUS
  <2>1. CASE Next
    BY <2>1 DEF Next, OnPage, OnSessions, OnCanvas
  <2>2. CASE UNCHANGED vars
    BY <2>2 DEF vars, pageVars, Knowledge!vars
  <2> QED
    BY <2>1, <2>2
<1> QED
  BY <1>1, <1>2, PTL DEF Spec, Knowledge!Spec

LEMMA GovernanceIsMounted == Spec => (mounted = "governance" => Governance!Spec)
<1>1. Init /\ mounted = "governance" => Governance!Init
  BY DEF Init, PageInit
<1>2. mounted = "governance" /\ [Next]_vars
        => [Governance!Next]_(Governance!vars) /\ (mounted = "governance")'
  <2> SUFFICES ASSUME mounted = "governance", [Next]_vars
               PROVE  [Governance!Next]_(Governance!vars) /\ mounted' = mounted
    OBVIOUS
  <2>1. CASE Next
    BY <2>1 DEF Next, OnPage, OnSessions, OnCanvas
  <2>2. CASE UNCHANGED vars
    BY <2>2 DEF vars, pageVars, Governance!vars
  <2> QED
    BY <2>1, <2>2
<1> QED
  BY <1>1, <1>2, PTL DEF Spec, Governance!Spec

LEMMA PlaybooksIsMounted == Spec => (mounted = "playbooks" => Playbooks!Spec)
<1>1. Init /\ mounted = "playbooks" => Playbooks!Init
  BY DEF Init, PageInit
<1>2. mounted = "playbooks" /\ [Next]_vars
        => [Playbooks!Next]_(Playbooks!vars) /\ (mounted = "playbooks")'
  <2> SUFFICES ASSUME mounted = "playbooks", [Next]_vars
               PROVE  [Playbooks!Next]_(Playbooks!vars) /\ mounted' = mounted
    OBVIOUS
  <2>1. CASE Next
    BY <2>1 DEF Next, OnPage, OnSessions, OnCanvas
  <2>2. CASE UNCHANGED vars
    BY <2>2 DEF vars, pageVars, Playbooks!vars
  <2> QED
    BY <2>1, <2>2
<1> QED
  BY <1>1, <1>2, PTL DEF Spec, Playbooks!Spec

LEMMA SkillsIsMounted == Spec => (mounted = "skills" => Skills!Spec)
<1>1. Init /\ mounted = "skills" => Skills!Init
  BY DEF Init, PageInit
<1>2. mounted = "skills" /\ [Next]_vars
        => [Skills!Next]_(Skills!vars) /\ (mounted = "skills")'
  <2> SUFFICES ASSUME mounted = "skills", [Next]_vars
               PROVE  [Skills!Next]_(Skills!vars) /\ mounted' = mounted
    OBVIOUS
  <2>1. CASE Next
    BY <2>1 DEF Next, OnPage, OnSessions, OnCanvas
  <2>2. CASE UNCHANGED vars
    BY <2>2 DEF vars, pageVars, Skills!vars
  <2> QED
    BY <2>1, <2>2
<1> QED
  BY <1>1, <1>2, PTL DEF Spec, Skills!Spec

LEMMA FixtureIsMounted == Spec => (mounted = "fixture" => Fixture!Spec)
<1>1. Init /\ mounted = "fixture" => Fixture!Init
  BY DEF Init, PageInit
<1>2. mounted = "fixture" /\ [Next]_vars
        => [Fixture!Next]_(Fixture!vars) /\ (mounted = "fixture")'
  <2> SUFFICES ASSUME mounted = "fixture", [Next]_vars
               PROVE  [Fixture!Next]_(Fixture!vars) /\ mounted' = mounted
    OBVIOUS
  <2>1. CASE Next
    BY <2>1 DEF Next, OnPage, OnSessions, OnCanvas
  <2>2. CASE UNCHANGED vars
    BY <2>2 DEF vars, pageVars, Fixture!vars
  <2> QED
    BY <2>1, <2>2
<1> QED
  BY <1>1, <1>2, PTL DEF Spec, Fixture!Spec

LEMMA PanelsIsMounted == Spec => (mounted = "panels" => Panels!Spec)
<1>1. Init /\ mounted = "panels" => Panels!Init
  BY DEF Init, PageInit
<1>2. mounted = "panels" /\ [Next]_vars
        => [Panels!Next]_(Panels!vars) /\ (mounted = "panels")'
  <2> SUFFICES ASSUME mounted = "panels", [Next]_vars
               PROVE  [Panels!Next]_(Panels!vars) /\ mounted' = mounted
    OBVIOUS
  <2>1. CASE Next
    BY <2>1 DEF Next, OnPage, OnSessions, OnCanvas
  <2>2. CASE UNCHANGED vars
    BY <2>2 DEF vars, pageVars, Panels!vars
  <2> QED
    BY <2>1, <2>2
<1> QED
  BY <1>1, <1>2, PTL DEF Spec, Panels!Spec

LEMMA CanvasIsMounted == Spec => (mounted = "canvas" => Canvas!Spec)
<1>1. Init /\ mounted = "canvas" => Canvas!Init
  BY DEF Init, PageInit
<1>2. mounted = "canvas" /\ [Next]_vars
        => [Canvas!Next]_(Canvas!vars) /\ (mounted = "canvas")'
  <2> SUFFICES ASSUME mounted = "canvas", [Next]_vars
               PROVE  [Canvas!Next]_(Canvas!vars) /\ mounted' = mounted
    OBVIOUS
  <2>1. CASE Next
    BY <2>1 DEF Next, OnPage, OnSessions, OnCanvas
  <2>2. CASE UNCHANGED vars
    BY <2>2 DEF vars, canvasVars, Canvas!vars
  <2> QED
    BY <2>1, <2>2
<1> QED
  BY <1>1, <1>2, PTL DEF Spec, Canvas!Spec

LEMMA EditedCanvasIsMounted == Spec => (mounted = "edited canvas" => EditedCanvas!Spec)
<1>1. Init /\ mounted = "edited canvas" => EditedCanvas!Init
  BY DEF Init, PageInit
<1>2. mounted = "edited canvas" /\ [Next]_vars
        => [EditedCanvas!Next]_(EditedCanvas!vars) /\ (mounted = "edited canvas")'
  <2> SUFFICES ASSUME mounted = "edited canvas", [Next]_vars
               PROVE  [EditedCanvas!Next]_(EditedCanvas!vars) /\ mounted' = mounted
    OBVIOUS
  <2>1. CASE Next
    BY <2>1 DEF Next, OnPage, OnSessions, OnCanvas
  <2>2. CASE UNCHANGED vars
    BY <2>2 DEF vars, canvasVars, EditedCanvas!vars
  <2> QED
    BY <2>1, <2>2
<1> QED
  BY <1>1, <1>2, PTL DEF Spec, EditedCanvas!Spec

LEMMA FrameIsMounted == Spec => (mounted = "frame" => Frame!Spec)
<1>1. Init /\ mounted = "frame" => Frame!Init
  BY DEF Init, PageInit
<1>2. mounted = "frame" /\ [Next]_vars
        => [Frame!Next]_(Frame!vars) /\ (mounted = "frame")'
  <2> SUFFICES ASSUME mounted = "frame", [Next]_vars
               PROVE  [Frame!Next]_(Frame!vars) /\ mounted' = mounted
    OBVIOUS
  <2>1. CASE Next
    BY <2>1 DEF Next, OnPage, OnSessions, OnCanvas
  <2>2. CASE UNCHANGED vars
    BY <2>2 DEF vars, pageVars, Frame!vars
  <2> QED
    BY <2>1, <2>2
<1> QED
  BY <1>1, <1>2, PTL DEF Spec, Frame!Spec

LEMMA DialogsIsMounted == Spec => (mounted = "dialogs" => Dialogs!Spec)
<1>1. Init /\ mounted = "dialogs" => Dialogs!Init
  BY DEF Init, PageInit
<1>2. mounted = "dialogs" /\ [Next]_vars
        => [Dialogs!Next]_(Dialogs!vars) /\ (mounted = "dialogs")'
  <2> SUFFICES ASSUME mounted = "dialogs", [Next]_vars
               PROVE  [Dialogs!Next]_(Dialogs!vars) /\ mounted' = mounted
    OBVIOUS
  <2>1. CASE Next
    BY <2>1 DEF Next, OnPage, OnSessions, OnCanvas
  <2>2. CASE UNCHANGED vars
    BY <2>2 DEF vars, pageVars, Dialogs!vars
  <2> QED
    BY <2>1, <2>2
<1> QED
  BY <1>1, <1>2, PTL DEF Spec, Dialogs!Spec

LEMMA LegacyIsMounted == Spec => (mounted = "fixture knowledge" => Legacy!Spec)
<1>1. Init /\ mounted = "fixture knowledge" => Legacy!Init
  BY DEF Init, PageInit
<1>2. mounted = "fixture knowledge" /\ [Next]_vars
        => [Legacy!Next]_(Legacy!vars) /\ (mounted = "fixture knowledge")'
  <2> SUFFICES ASSUME mounted = "fixture knowledge", [Next]_vars
               PROVE  [Legacy!Next]_(Legacy!vars) /\ mounted' = mounted
    OBVIOUS
  <2>1. CASE Next
    BY <2>1 DEF Next, OnPage, OnSessions, OnCanvas
  <2>2. CASE UNCHANGED vars
    BY <2>2 DEF vars, pageVars, Legacy!vars
  <2> QED
    BY <2>1, <2>2
<1> QED
  BY <1>1, <1>2, PTL DEF Spec, Legacy!Spec

LEMMA PlaybookRunsIsMounted == Spec => (mounted = "runs" => PlaybookRuns!Spec)
<1>1. Init /\ mounted = "runs" => PlaybookRuns!Init
  BY DEF Init, PageInit
<1>2. mounted = "runs" /\ [Next]_vars
        => [PlaybookRuns!Next]_(PlaybookRuns!vars) /\ (mounted = "runs")'
  <2> SUFFICES ASSUME mounted = "runs", [Next]_vars
               PROVE  [PlaybookRuns!Next]_(PlaybookRuns!vars) /\ mounted' = mounted
    OBVIOUS
  <2>1. CASE Next
    BY <2>1 DEF Next, OnPage, OnSessions, OnCanvas
  <2>2. CASE UNCHANGED vars
    BY <2>2 DEF vars, pageVars, PlaybookRuns!vars
  <2> QED
    BY <2>1, <2>2
<1> QED
  BY <1>1, <1>2, PTL DEF Spec, PlaybookRuns!Spec

LEMMA AlertsIsMounted == Spec => (mounted = "alerts" => Alerts!Spec)
<1>1. Init /\ mounted = "alerts" => Alerts!Init
  BY DEF Init, PageInit
<1>2. mounted = "alerts" /\ [Next]_vars
        => [Alerts!Next]_(Alerts!vars) /\ (mounted = "alerts")'
  <2> SUFFICES ASSUME mounted = "alerts", [Next]_vars
               PROVE  [Alerts!Next]_(Alerts!vars) /\ mounted' = mounted
    OBVIOUS
  <2>1. CASE Next
    BY <2>1 DEF Next, OnPage, OnSessions, OnCanvas
  <2>2. CASE UNCHANGED vars
    BY <2>2 DEF vars, pageVars, Alerts!vars
  <2> QED
    BY <2>1, <2>2
<1> QED
  BY <1>1, <1>2, PTL DEF Spec, Alerts!Spec

\* loadSessions, invalidateSessions: on both hosts of the sessions page, a list that is loading
\* has a request or a timer that will answer it, whatever creates, deletes and moves go between.
THEOREM SessionListsCome == Spec => []ListIsComing
<1>1. ~(mounted = "sessions") /\ [Next]_vars => (~(mounted = "sessions"))'
  BY MountedStays
<1>2. Sessions!Spec => []Sessions!ListIsComing
  BY Sessions!ListsCome
<1>3. ~(mounted = "keyed sessions") /\ [Next]_vars => (~(mounted = "keyed sessions"))'
  BY MountedStays
<1>4. KeyedSessions!Spec => []KeyedSessions!ListIsComing
  BY KeyedSessions!ListsCome
<1>5. (~(mounted = "sessions") \/ Sessions!ListIsComing)
        /\ (~(mounted = "keyed sessions") \/ KeyedSessions!ListIsComing)
        => ListIsComing
  BY DEF ListIsComing
<1> QED
  BY <1>1, <1>2, <1>3, <1>4, <1>5, SessionsIsMounted, KeyedSessionsIsMounted, PTL DEF Spec

\* deleteCurrentSession, on both hosts of the sessions page: a session whose deletion the page
\* on the screen knows of is not offered again, whatever lists, creations and moves go between.
THEOREM DeletedStayUnlisted == Spec => []DeletedIsNotListed
<1>1. ~(mounted = "sessions") /\ [Next]_vars => (~(mounted = "sessions"))'
  BY MountedStays
<1>2. Sessions!Spec => []Sessions!DeletedIsNotListed
  BY Sessions!DeletedStaysUnlisted
<1>3. ~(mounted = "keyed sessions") /\ [Next]_vars => (~(mounted = "keyed sessions"))'
  BY MountedStays
<1>4. KeyedSessions!Spec => []KeyedSessions!DeletedIsNotListed
  BY KeyedSessions!DeletedStaysUnlisted
<1>5. (~(mounted = "sessions") \/ Sessions!DeletedIsNotListed)
        /\ (~(mounted = "keyed sessions") \/ KeyedSessions!DeletedIsNotListed)
        => DeletedIsNotListed
  BY DEF DeletedIsNotListed
<1> QED
  BY <1>1, <1>2, <1>3, <1>4, <1>5, SessionsIsMounted, KeyedSessionsIsMounted, PTL DEF Spec

\* updateCanvas and its conflicts: however edits, lost answers and the charts of the agent come in
\* between, an edit that is accepted drops no chart its author had not seen.
THEOREM EditsDropNothingUnseen == Spec => []NothingDroppedUnseen
<1>1. ~(mounted = "canvas") /\ [Next]_vars => (~(mounted = "canvas"))'
  BY MountedStays
<1>2. Canvas!Spec => []Canvas!NothingDroppedUnseen
  BY Canvas!DropsNothingUnseen
<1>3. ~(mounted = "edited canvas") /\ [Next]_vars => (~(mounted = "edited canvas"))'
  BY MountedStays
<1>4. EditedCanvas!Spec => []EditedCanvas!NothingDroppedUnseen
  BY EditedCanvas!DropsNothingUnseen
<1>5. (~(mounted = "canvas") \/ Canvas!NothingDroppedUnseen)
        /\ (~(mounted = "edited canvas") \/ EditedCanvas!NothingDroppedUnseen)
        => NothingDroppedUnseen
  BY DEF NothingDroppedUnseen
<1> QED
  BY <1>1, <1>2, <1>3, <1>4, <1>5, CanvasIsMounted, EditedCanvasIsMounted, PTL DEF Spec

\* usePanelQuery: whichever views come, go and change their query while answers are on their way,
\* a view shows what its own query said last.
THEOREM PanelsShowTheirQuery == Spec => []ShowsOwnQuery
<1>1. ~(mounted = "panels") /\ [Next]_vars => (~(mounted = "panels"))'
  BY MountedStays
<1>2. Panels!Spec => []Panels!ShowsOwnQuery
  BY PagesAssumption, PanelsShowTheirOwnQuery
<1>3. ~(mounted = "panels") => ShowsOwnQuery
  BY DEF ShowsOwnQuery
<1>4. Panels!ShowsOwnQuery => ShowsOwnQuery
  BY DEF ShowsOwnQuery
<1> QED
  BY <1>1, <1>2, <1>3, <1>4, PanelsIsMounted, PTL DEF Spec

\* refreshFolders: whatever answers were under way when Grafana refused, the shell shows no folder
\* that was not asked for since.
THEOREM RefusalsAreHeeded == Spec => []ShownAfterRefusal
<1>1. ~(mounted = "shell") /\ [Next]_vars => (~(mounted = "shell"))'
  BY MountedStays
<1>2. Shell!Spec => []Shell!ShownAfterRefusal
  BY PagesAssumption, ShellRefusalsAreHeeded
<1>3. ~(mounted = "shell") => ShownAfterRefusal
  BY DEF ShownAfterRefusal
<1>4. Shell!ShownAfterRefusal => ShownAfterRefusal
  BY DEF ShownAfterRefusal
<1> QED
  BY <1>1, <1>2, <1>3, <1>4, ShellIsMounted, PTL DEF Spec

\* RealKnowledgePage: in whatever order the lists, the writes and the moves to another base are
\* answered, the documents shown belong to the base that is selected.
THEOREM DocumentsAreOfTheirBase == Spec => []DocumentsAreOfSelected
<1>1. ~(mounted = "knowledge") /\ [Next]_vars => (~(mounted = "knowledge"))'
  BY MountedStays
<1>2. Knowledge!Spec => []Knowledge!DocumentsAreOfSelected
  BY KnowledgeDocumentsAreOfTheirBase
<1>3. ~(mounted = "knowledge") => DocumentsAreOfSelected
  BY DEF DocumentsAreOfSelected
<1>4. Knowledge!DocumentsAreOfSelected => DocumentsAreOfSelected
  BY DEF DocumentsAreOfSelected
<1> QED
  BY <1>1, <1>2, <1>3, <1>4, KnowledgeIsMounted, PTL DEF Spec

\* Lists that depend on a choice: in whatever order the answers arrive, the approvals are those of
\* the filters, and the context in the drawer is that of the active folder.
THEOREM ChoicesAreShown == Spec => []ShownIsOfChoice
<1>1. ~(mounted = "governance") /\ [Next]_vars => (~(mounted = "governance"))'
  BY MountedStays
<1>2. Governance!Spec => []Governance!ListIsOfQuery
  BY GovernanceListsAreOfQuery
<1>3. ~(mounted = "drawer") /\ [Next]_vars => (~(mounted = "drawer"))'
  BY MountedStays
<1>4. Drawer!Spec => []Drawer!ContextIsOfFolder
  BY DrawerContextsAreOfFolder
<1>5. (~(mounted = "governance") \/ Governance!ListIsOfQuery)
        /\ (~(mounted = "drawer") \/ Drawer!ContextIsOfFolder)
        => ShownIsOfChoice
  BY DEF ShownIsOfChoice
<1> QED
  BY <1>1, <1>2, <1>3, <1>4, <1>5, GovernanceIsMounted, DrawerIsMounted, PTL DEF Spec

\* fixtureApprovalGateway: of a decision, whose write may fail at any of its keys, the storage holds
\* all or nothing.
THEOREM DecisionsAreWhole == Spec => []DecisionIsWhole
<1>1. ~(mounted = "governance") /\ [Next]_vars => (~(mounted = "governance"))'
  BY MountedStays
<1>2. Governance!Spec => []Governance!DecisionIsWhole
  BY GovernanceDecisionsAreWhole
<1>3. ~(mounted = "governance") => DecisionIsWhole
  BY DEF DecisionIsWhole
<1>4. Governance!DecisionIsWhole => DecisionIsWhole
  BY DEF DecisionIsWhole
<1> QED
  BY <1>1, <1>2, <1>3, <1>4, GovernanceIsMounted, PTL DEF Spec

\* PlaybookEditor: however often the answer of a creation is lost and the save pressed again,
\* an editor of a new playbook makes one playbook at most.
THEOREM PlaybooksAreSavedOnce == Spec => []SavedOnce
<1>1. ~(mounted = "playbooks") /\ [Next]_vars => (~(mounted = "playbooks"))'
  BY MountedStays
<1>2. Playbooks!Spec => []Playbooks!SavedOnce
  BY PagesAssumption, PlaybooksSaveOnce
<1>3. ~(mounted = "playbooks") => SavedOnce
  BY DEF SavedOnce
<1>4. Playbooks!SavedOnce => SavedOnce
  BY DEF SavedOnce
<1> QED
  BY <1>1, <1>2, <1>3, <1>4, PlaybooksIsMounted, PTL DEF Spec

\* usePlaybooksController: whatever older request is answered after the choice of another folder,
\* a list of playbooks that appears is the one of the folder selected.
THEOREM ListsAppearForFolder == Spec => ListAppearsForFolder
<1>1. PlaybooksInv /\ mounted = "playbooks" /\ [Next]_vars
        => [mounted = "playbooks" => Playbooks!AppearsForFolder]_vars
  <2> SUFFICES ASSUME PlaybooksInv, mounted = "playbooks", Next PROVE Playbooks!AppearsForFolder
    OBVIOUS
  <2>1. Playbooks!Next
    BY DEF Next, OnPage, OnSessions, OnCanvas
  <2> QED
    BY <2>1, PlaybooksNextInv
<1>2. ~(mounted = "playbooks") /\ [Next]_vars
        => /\ (~(mounted = "playbooks"))'
           /\ [mounted = "playbooks" => Playbooks!AppearsForFolder]_vars
  BY MountedStays
<1>3. Playbooks!Spec => []PlaybooksInv
  BY PagesAssumption, PlaybooksAlwaysInv
<1>4. mounted = "playbooks" /\ [Next]_vars => (mounted = "playbooks")'
  BY MountedStays
<1> QED
  BY <1>1, <1>2, <1>3, <1>4, PlaybooksIsMounted, PTL DEF Spec, ListAppearsForFolder

\* fixtureSkillGateway, fixtureWorkbenchGateway: a run that was cancelled is not taken up again by a
\* stream or a decision, and a session that was deleted does not come back with another answer.
THEOREM EndedRunsStay == Spec => EndedStays
<1>1. SkillsInv /\ mounted = "skills" /\ [Next]_vars
        => [mounted = "skills" => Skills!StaysCancelled]_vars
  <2> SUFFICES ASSUME SkillsInv, mounted = "skills", Next PROVE Skills!StaysCancelled
    OBVIOUS
  <2>1. Skills!Next
    BY DEF Next, OnPage, OnSessions, OnCanvas
  <2> QED
    BY <2>1, SkillsNextInv
<1>2. FixtureInv /\ mounted = "fixture" /\ [Next]_vars
        => [mounted = "fixture" => Fixture!StaysDeleted]_vars
  <2> SUFFICES ASSUME FixtureInv, mounted = "fixture", Next PROVE Fixture!StaysDeleted
    OBVIOUS
  <2>1. Fixture!Next
    BY DEF Next, OnPage, OnSessions, OnCanvas
  <2> QED
    BY <2>1, FixtureNextInv
<1>3. /\ ~(mounted = "skills") /\ [Next]_vars
           => (~(mounted = "skills"))' /\ [mounted = "skills" => Skills!StaysCancelled]_vars
      /\ ~(mounted = "fixture") /\ [Next]_vars
           => (~(mounted = "fixture"))' /\ [mounted = "fixture" => Fixture!StaysDeleted]_vars
  BY MountedStays
<1>4. /\ mounted = "skills" /\ [Next]_vars => (mounted = "skills")'
      /\ mounted = "fixture" /\ [Next]_vars => (mounted = "fixture")'
  BY MountedStays
<1>5. /\ [mounted = "skills" => Skills!StaysCancelled]_vars
      /\ [mounted = "fixture" => Fixture!StaysDeleted]_vars
      => [/\ mounted = "skills" => Skills!StaysCancelled
          /\ mounted = "fixture" => Fixture!StaysDeleted]_vars
  OBVIOUS
<1> QED
  BY <1>1, <1>2, <1>3, <1>4, <1>5, SkillsAlwaysInv, FixtureAlwaysInv, SkillsIsMounted,
     FixtureIsMounted, PTL DEF Spec, EndedStays

\* The promises of the page that is mounted, a few pages at a time.
ConversationTypes ==
  /\ (mounted = "sessions" => Sessions!TypeOK)
  /\ (mounted = "keyed sessions" => KeyedSessions!TypeOK)
  /\ (mounted = "canvas" => Canvas!TypeOK)
  /\ (mounted = "edited canvas" => EditedCanvas!TypeOK)
WorkbenchPartTypes ==
  /\ (mounted = "panels" => Panels!TypeOK)
  /\ (mounted = "drawer" => Drawer!TypeOK)
  /\ (mounted = "frame" => Frame!TypeOK)
  /\ (mounted = "dialogs" => Dialogs!TypeOK)
  /\ (mounted = "fixture" => Fixture!TypeOK)
ShellAndKnowledgeTypes ==
  /\ (mounted = "shell" => Shell!TypeOK)
  /\ (mounted = "knowledge" => Knowledge!TypeOK /\ Knowledge!BusyHasWrite)
  /\ (mounted = "fixture knowledge" => LegacyPromises)
OtherPageTypes ==
  /\ (mounted = "playbooks" => Playbooks!TypeOK)
  /\ (mounted = "runs" => PlaybookRuns!TypeOK)
  /\ (mounted = "skills" => Skills!TypeOK)
  /\ (mounted = "governance" => Governance!TypeOK)
  /\ (mounted = "alerts" => Alerts!TypeOK)

\* Every page: what its module says of its types and of the requests that it waits for holds for
\* all folders, bounds and orders of the answers, as long as the page is mounted.
THEOREM PagesKeepTheirTypes == Spec => []TypeOK
<1>1. Spec => [](mounted = "sessions" => Sessions!TypeOK)
  <2>1. ~(mounted = "sessions") /\ [Next]_vars => (~(mounted = "sessions"))'
    BY MountedStays
  <2>2. Sessions!Spec => []Sessions!TypeOK
    BY PagesAssumption, Sessions!OpenIsOfRoute
  <2> QED
    BY <2>1, <2>2, SessionsIsMounted, PTL DEF Spec
<1>2. Spec => [](mounted = "keyed sessions" => KeyedSessions!TypeOK)
  <2>1. ~(mounted = "keyed sessions") /\ [Next]_vars => (~(mounted = "keyed sessions"))'
    BY MountedStays
  <2>2. KeyedSessions!Spec => []KeyedSessions!TypeOK
    BY PagesAssumption, KeyedSessions!OpenIsOfRoute
  <2> QED
    BY <2>1, <2>2, KeyedSessionsIsMounted, PTL DEF Spec
<1>3. Spec => [](mounted = "canvas" => Canvas!TypeOK)
  <2>1. ~(mounted = "canvas") /\ [Next]_vars => (~(mounted = "canvas"))'
    BY MountedStays
  <2>2. Canvas!Spec => []Canvas!TypeOK
    BY PagesAssumption, Canvas!KeepsWhatWasPublished
  <2> QED
    BY <2>1, <2>2, CanvasIsMounted, PTL DEF Spec
<1>4. Spec => [](mounted = "edited canvas" => EditedCanvas!TypeOK)
  <2>1. ~(mounted = "edited canvas") /\ [Next]_vars => (~(mounted = "edited canvas"))'
    BY MountedStays
  <2>2. EditedCanvas!Spec => []EditedCanvas!TypeOK
    BY PagesAssumption, EditedCanvas!KeepsWhatWasPublished
  <2> QED
    BY <2>1, <2>2, EditedCanvasIsMounted, PTL DEF Spec
<1>5. Spec => [](mounted = "panels" => Panels!TypeOK)
  <2>1. ~(mounted = "panels") /\ [Next]_vars => (~(mounted = "panels"))'
    BY MountedStays
  <2>2. Panels!Spec => []Panels!TypeOK
    BY PagesAssumption, PanelsQueriesAreCounted
  <2> QED
    BY <2>1, <2>2, PanelsIsMounted, PTL DEF Spec
<1>6. Spec => [](mounted = "drawer" => Drawer!TypeOK)
  <2>1. ~(mounted = "drawer") /\ [Next]_vars => (~(mounted = "drawer"))'
    BY MountedStays
  <2>2. Drawer!Spec => []Drawer!TypeOK
    BY PagesAssumption, DrawerCountsItsRequests
  <2> QED
    BY <2>1, <2>2, DrawerIsMounted, PTL DEF Spec
<1>7. Spec => [](mounted = "frame" => Frame!TypeOK)
  <2>1. ~(mounted = "frame") /\ [Next]_vars => (~(mounted = "frame"))'
    BY MountedStays
  <2>2. Frame!Spec => []Frame!TypeOK
    BY PagesAssumption, FrameWidthsAreBounded
  <2> QED
    BY <2>1, <2>2, FrameIsMounted, PTL DEF Spec
<1>8. Spec => [](mounted = "dialogs" => Dialogs!TypeOK)
  <2>1. ~(mounted = "dialogs") /\ [Next]_vars => (~(mounted = "dialogs"))'
    BY MountedStays
  <2>2. Dialogs!Spec => []Dialogs!TypeOK
    BY PagesAssumption, DialogsAreOfRequests
  <2> QED
    BY <2>1, <2>2, DialogsIsMounted, PTL DEF Spec
<1>9. Spec => [](mounted = "fixture" => Fixture!TypeOK)
  <2>1. ~(mounted = "fixture") /\ [Next]_vars => (~(mounted = "fixture"))'
    BY MountedStays
  <2>2. Fixture!Spec => []Fixture!TypeOK
    BY PagesAssumption, FixtureTurnsEnd
  <2> QED
    BY <2>1, <2>2, FixtureIsMounted, PTL DEF Spec
<1>10. Spec => [](mounted = "shell" => Shell!TypeOK)
  <2>1. ~(mounted = "shell") /\ [Next]_vars => (~(mounted = "shell"))'
    BY MountedStays
  <2>2. Shell!Spec => []Shell!TypeOK
    BY PagesAssumption, ShellActiveIsListed
  <2> QED
    BY <2>1, <2>2, ShellIsMounted, PTL DEF Spec
<1>11. Spec => [](mounted = "knowledge" => (Knowledge!TypeOK /\ Knowledge!BusyHasWrite))
  <2>1. ~(mounted = "knowledge") /\ [Next]_vars => (~(mounted = "knowledge"))'
    BY MountedStays
  <2>2. Knowledge!Spec => [](Knowledge!TypeOK /\ Knowledge!BusyHasWrite)
    BY PagesAssumption, KnowledgeBusyEnds
  <2> QED
    BY <2>1, <2>2, KnowledgeIsMounted, PTL DEF Spec
<1>12. Spec => [](mounted = "fixture knowledge" => LegacyPromises)
  <2>1. ~(mounted = "fixture knowledge") /\ [Next]_vars => (~(mounted = "fixture knowledge"))'
    BY MountedStays
  <2>2. Legacy!Spec => []LegacyPromises
    BY PagesAssumption, LegacySavesFit
  <2> QED
    BY <2>1, <2>2, LegacyIsMounted, PTL DEF Spec
<1>13. Spec => [](mounted = "playbooks" => Playbooks!TypeOK)
  <2>1. ~(mounted = "playbooks") /\ [Next]_vars => (~(mounted = "playbooks"))'
    BY MountedStays
  <2>2. Playbooks!Spec => []Playbooks!TypeOK
    BY PagesAssumption, PlaybookRoutesAreKnown
  <2> QED
    BY <2>1, <2>2, PlaybooksIsMounted, PTL DEF Spec
<1>14. Spec => [](mounted = "runs" => PlaybookRuns!TypeOK)
  <2>1. ~(mounted = "runs") /\ [Next]_vars => (~(mounted = "runs"))'
    BY MountedStays
  <2>2. PlaybookRuns!Spec => []PlaybookRuns!TypeOK
    BY PagesAssumption, RunsRoutesAreKnown
  <2> QED
    BY <2>1, <2>2, PlaybookRunsIsMounted, PTL DEF Spec
<1>15. Spec => [](mounted = "skills" => Skills!TypeOK)
  <2>1. ~(mounted = "skills") /\ [Next]_vars => (~(mounted = "skills"))'
    BY MountedStays
  <2>2. Skills!Spec => []Skills!TypeOK
    BY PagesAssumption, SkillsWritesAreAwaited
  <2> QED
    BY <2>1, <2>2, SkillsIsMounted, PTL DEF Spec
<1>16. Spec => [](mounted = "governance" => Governance!TypeOK)
  <2>1. ~(mounted = "governance") /\ [Next]_vars => (~(mounted = "governance"))'
    BY MountedStays
  <2>2. Governance!Spec => []Governance!TypeOK
    BY PagesAssumption, GovernanceDecidesOneItem
  <2> QED
    BY <2>1, <2>2, GovernanceIsMounted, PTL DEF Spec
<1>17. Spec => [](mounted = "alerts" => Alerts!TypeOK)
  <2>1. ~(mounted = "alerts") /\ [Next]_vars => (~(mounted = "alerts"))'
    BY MountedStays
  <2>2. Alerts!Spec => []Alerts!TypeOK
    BY PagesAssumption, AlertsWaitForTheirCalls
  <2> QED
    BY <2>1, <2>2, AlertsIsMounted, PTL DEF Spec
<1>18. Spec => []ConversationTypes
  <2>1. /\ (mounted = "sessions" => Sessions!TypeOK)
        /\ (mounted = "keyed sessions" => KeyedSessions!TypeOK)
        /\ (mounted = "canvas" => Canvas!TypeOK)
        /\ (mounted = "edited canvas" => EditedCanvas!TypeOK)
        => ConversationTypes
    BY DEF ConversationTypes
  <2> QED
    BY <2>1, <1>1, <1>2, <1>3, <1>4, PTL
<1>19. Spec => []WorkbenchPartTypes
  <2>1. /\ (mounted = "panels" => Panels!TypeOK)
        /\ (mounted = "drawer" => Drawer!TypeOK)
        /\ (mounted = "frame" => Frame!TypeOK)
        /\ (mounted = "dialogs" => Dialogs!TypeOK)
        /\ (mounted = "fixture" => Fixture!TypeOK)
        => WorkbenchPartTypes
    BY DEF WorkbenchPartTypes
  <2> QED
    BY <2>1, <1>5, <1>6, <1>7, <1>8, <1>9, PTL
<1>20. Spec => []ShellAndKnowledgeTypes
  <2>1. /\ (mounted = "shell" => Shell!TypeOK)
        /\ (mounted = "knowledge" => Knowledge!TypeOK /\ Knowledge!BusyHasWrite)
        /\ (mounted = "fixture knowledge" => LegacyPromises)
        => ShellAndKnowledgeTypes
    BY DEF ShellAndKnowledgeTypes
  <2> QED
    BY <2>1, <1>10, <1>11, <1>12, PTL
<1>21. Spec => []OtherPageTypes
  <2>1. /\ (mounted = "playbooks" => Playbooks!TypeOK)
        /\ (mounted = "runs" => PlaybookRuns!TypeOK)
        /\ (mounted = "skills" => Skills!TypeOK)
        /\ (mounted = "governance" => Governance!TypeOK)
        /\ (mounted = "alerts" => Alerts!TypeOK)
        => OtherPageTypes
    BY DEF OtherPageTypes
  <2> QED
    BY <2>1, <1>13, <1>14, <1>15, <1>16, <1>17, PTL
<1>22. ConversationTypes /\ WorkbenchPartTypes /\ ShellAndKnowledgeTypes /\ OtherPageTypes => TypeOK
  BY DEF TypeOK, LegacyPromises, ConversationTypes, WorkbenchPartTypes,
         ShellAndKnowledgeTypes, OtherPageTypes
<1> QED
  BY <1>18, <1>19, <1>20, <1>21, <1>22, PTL

=============================================================================
