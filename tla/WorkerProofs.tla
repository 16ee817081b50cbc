---------------------------- MODULE WorkerProofs ----------------------------
(***************************************************************************)
(* The worker threads of the main window: the search threads of its tabs   *)
(* (SearchTabs) and the scans of drives (DriveScan).                       *)
(*                                                                         *)
(* A tab has one search thread: a second is started only when the one that *)
(* SearchTab.search_worker refers to has ended.  So what is shown of a     *)
(* tab, what is posted for it in the order of the queue, what its thread   *)
(* searches for and what its edit holds are queries in ascending order.    *)
(*                                                                         *)
(* Of the scans: what the backup privilege's reference count guarantees to *)
(* any number of parallel ones, and what an online drive's listing holds   *)
(* when devices do not fail.                                               *)
(***************************************************************************)
EXTENDS SearchTabs, DriveScan, FiniteSetTheorems, TLAPS

-----------------------------------------------------------------------------
(* SearchTabs: the order of results *)


Threads == [id : Nat, tab : Tab, query : Nat, pc : {"search", "emit"}, cancelled : BOOLEAN]
Results == [tab : Tab, query : Nat]

\* The types of what the order of queries rests on.
Types ==
    /\ tabs \subseteq Tab /\ current \in Tab
    /\ text \in [Tab -> Nat] /\ shown \in [Tab -> Nat] /\ latest \in [Tab -> Nat]
    /\ edits \in Nat /\ started \in Nat
    /\ threads \in SUBSET Threads
    /\ posted \in Seq(Results)

\* A thread is the one its tab refers to: a tab has one at most.
OnePerTab == \A w \in threads : w.id = latest[w.tab]
Alone == \A w, v \in threads : w.tab = v.tab => w = v

\* No query is newer than the last edit.
TextBound == \A t \in Tab : shown[t] <= text[t] /\ text[t] <= edits

\* A thread searches for what the tab holds, or held before ...
ThreadBetween ==
    \A w \in threads : shown[w.tab] <= w.query /\ w.query <= text[w.tab]

\* ... and so did the threads whose results are posted ...
PostedBetween ==
    \A i \in DOMAIN posted :
        shown[posted[i].tab] <= posted[i].query /\ posted[i].query <= text[posted[i].tab]

\* ... in the order of their queries ...
PostedInOrder ==
    \A i, j \in DOMAIN posted :
        i < j /\ posted[i].tab = posted[j].tab => posted[i].query <= posted[j].query

\* ... before the thread that runs.
PostedBeforeThread ==
    \A w \in threads, i \in DOMAIN posted :
        posted[i].tab = w.tab => posted[i].query <= w.query

Order ==
    /\ OnePerTab /\ Alone /\ TextBound /\ ThreadBetween /\ PostedBetween
    /\ PostedInOrder /\ PostedBeforeThread

IInv == Types /\ Order

-----------------------------------------------------------------------------
(* What the steps do *)

\* The user's side of a step: tabs close, and edits only give higher numbers.
Edited ==
    /\ tabs' \subseteq Tab /\ current' \in Tab /\ edits' \in Nat
    /\ text' \in [Tab -> Nat]
    /\ \A t \in Tab : text[t] <= text'[t] /\ text'[t] <= edits'

\* A changed thread keeps all but its place and its flag.
LEMMA ThreadFields ==
    ASSUME NEW w \in Threads, NEW pc \in {"search", "emit"}, NEW c \in BOOLEAN
    PROVE  /\ Thread(w, pc, c) \in Threads
           /\ Thread(w, pc, c).id = w.id /\ Thread(w, pc, c).tab = w.tab
           /\ Thread(w, pc, c).query = w.query
BY DEF Thread, Threads

\* An edit leaves searches and results in order.
LEMMA EditKeeps ==
    ASSUME IInv, Edited, UNCHANGED <<threads, latest, started, shown, posted>>
    PROVE  IInv'
<1>1. Types'
  BY DEF IInv, Types, Edited
<1>2. TextBound'
  BY DEF IInv, Types, Order, TextBound, Edited
<1>3. ThreadBetween'
  BY DEF IInv, Types, Order, ThreadBetween, Edited, Threads
<1>4. PostedBetween'
  <2>1. \A i \in DOMAIN posted : posted[i] \in Results
    BY DEF IInv, Types
  <2> QED
    BY <2>1 DEF IInv, Types, Order, PostedBetween, Edited, Results
<1>5. OnePerTab' /\ Alone' /\ PostedInOrder' /\ PostedBeforeThread'
  BY DEF IInv, Order, OnePerTab, Alone, PostedInOrder, PostedBeforeThread
<1> QED
  BY <1>1, <1>2, <1>3, <1>4, <1>5 DEF IInv, Order

\* So does a cancelled thread.
LEMMA CancelKeeps ==
    ASSUME IInv, Edited, NEW t \in Tab, threads' = Cancelled(t),
           UNCHANGED <<latest, started, shown, posted>>
    PROVE  IInv'
<1>1. \A v \in threads' : \E w \in threads :
          /\ v = Thread(w, w.pc, w.cancelled \/ w.id = latest[t])
          /\ v \in Threads /\ v.id = w.id /\ v.tab = w.tab /\ v.query = w.query
  <2>1. SUFFICES ASSUME NEW w \in threads
                 PROVE  LET v == Thread(w, w.pc, w.cancelled \/ w.id = latest[t])
                        IN v \in Threads /\ v.id = w.id /\ v.tab = w.tab /\ v.query = w.query
    BY DEF Cancelled
  <2>2. w \in Threads
    BY DEF IInv, Types
  <2>3. w.pc \in {"search", "emit"} /\ (w.cancelled \/ w.id = latest[t]) \in BOOLEAN
    BY <2>2 DEF Threads
  <2> QED
    BY <2>2, <2>3, ThreadFields
<1>2. Types'
  BY <1>1 DEF IInv, Types, Edited
<1>3. TextBound'
  BY SMTT(30) DEF IInv, Types, Order, TextBound, Edited
<1>4. OnePerTab' /\ Alone'
  BY <1>1 DEF IInv, Order, OnePerTab, Alone
<1>5. ThreadBetween'
  BY <1>1, SMTT(30) DEF IInv, Types, Order, ThreadBetween, Edited, Threads
<1>6. PostedBetween'
  <2>1. \A i \in DOMAIN posted : posted[i] \in Results
    BY DEF IInv, Types
  <2> QED
    BY <2>1, SMTT(30) DEF IInv, Types, Order, PostedBetween, Edited, Results
<1>7. PostedInOrder' /\ PostedBeforeThread'
  BY <1>1 DEF IInv, Order, PostedInOrder, PostedBeforeThread
<1> QED
  BY <1>2, <1>3, <1>4, <1>5, <1>6, <1>7 DEF IInv, Order

\* And a search that is started when the tab's thread has ended: the new thread is
\* the tab's only one, and searches for what the tab holds now.
LEMMA StartKeeps ==
    ASSUME IInv, Edited, NEW t \in Tab, ~Running(t), Start(t), UNCHANGED <<shown, posted>>
    PROVE  IInv'
<1>1. CASE text'[t] \in Invalid
  BY <1>1, EditKeeps DEF Start
<1>2. CASE text'[t] \notin Invalid
  <2> DEFINE n == [id |-> started', tab |-> t, query |-> text'[t], pc |-> "search",
                   cancelled |-> FALSE]
  <2>1. /\ started' = started + 1 /\ latest' = [latest EXCEPT ![t] = started']
        /\ threads' = threads \cup {n}
    BY <1>2 DEF Start
  <2>2. n \in Threads /\ n.id = started' /\ n.tab = t /\ n.query = text'[t]
    BY <2>1 DEF IInv, Types, Edited, Threads
  <2>3. \A w \in threads : w \in Threads /\ w.tab \in Tab /\ w.tab # t
    BY DEF IInv, Types, Order, OnePerTab, Running, Threads
  <2> HIDE DEF n
  <2>4. \A i \in DOMAIN posted : posted[i] \in Results
    BY DEF IInv, Types
  <2>5. Types'
    BY <2>1, <2>2, <2>3 DEF IInv, Types, Edited
  <2>6. TextBound'
    BY SMTT(30) DEF IInv, Types, Order, TextBound, Edited
  <2>7. OnePerTab'
    BY <2>1, <2>2, <2>3 DEF IInv, Types, Order, OnePerTab
  <2>8. Alone'
    BY <2>1, <2>2, <2>3 DEF IInv, Order, Alone
  <2>9. ThreadBetween'
    <3> SUFFICES ASSUME NEW w \in threads'
                 PROVE  shown[w.tab] <= w.query /\ w.query <= text'[w.tab]
      BY DEF ThreadBetween
    <3>1. CASE w \in threads
      <4>1. w.tab \in Tab /\ w.query \in Nat
        BY <2>3, <3>1 DEF Threads
      <4>2. shown[w.tab] <= w.query /\ w.query <= text[w.tab]
        BY <3>1 DEF IInv, Order, ThreadBetween
      <4> QED
        BY <4>1, <4>2, SMTT(30) DEF IInv, Types, Edited
    <3>2. CASE w = n
      BY <2>2, <3>2 DEF IInv, Types, Order, TextBound, Edited
    <3> QED
      BY <2>1, <3>1, <3>2
  <2>10. PostedBetween'
    BY <2>4, SMTT(30) DEF IInv, Types, Order, PostedBetween, Edited, Results
  <2>11. PostedInOrder'
    BY DEF IInv, Order, PostedInOrder
  <2>12. PostedBeforeThread'
    <3> SUFFICES ASSUME NEW w \in threads', NEW i \in DOMAIN posted, posted[i].tab = w.tab
                 PROVE  posted[i].query <= w.query
      BY DEF PostedBeforeThread
    <3>1. CASE w \in threads
      BY <3>1 DEF IInv, Order, PostedBeforeThread
    <3>2. CASE w = n
      <4>1. posted[i].query \in Nat /\ posted[i].query <= text[t]
        BY <2>2, <2>4, <3>2 DEF IInv, Order, PostedBetween, Results
      <4> QED
        BY <2>2, <3>2, <4>1 DEF IInv, Types, Edited
    <3> QED
      BY <2>1, <3>1, <3>2
  <2> QED
    BY <2>5, <2>6, <2>7, <2>8, <2>9, <2>10, <2>11, <2>12 DEF IInv, Order
<1> QED
  BY <1>1, <1>2

\* _execute_search does one or the other.
LEMMA ExecuteKeeps ==
    ASSUME IInv, Edited, UNCHANGED current, _execute_search
    PROVE  IInv'
<1>1. current \in Tab
  BY DEF IInv, Types
<1>2. CASE Running(current)
  BY <1>1, <1>2, CancelKeeps DEF _execute_search
<1>3. CASE ~Running(current)
  BY <1>1, <1>3, StartKeeps DEF _execute_search
<1> QED
  BY <1>2, <1>3

\* A search that ends, cancelled or with something to post, is still the tab's only one.
LEMMA SearchKeeps ==
    ASSUME IInv, NEW w \in threads, Search(w)
    PROVE  IInv'
<1>1. w \in Threads /\ w.tab \in Tab
  BY DEF IInv, Types, Threads
<1>2. \A v \in threads' :
          v \in Threads /\ (v \in threads \ {w} \/ v = Thread(w, "emit", FALSE))
  BY <1>1, ThreadFields DEF Search, IInv, Types
<1>3. \A v \in threads' : \E u \in threads :
          /\ v.id = u.id /\ v.tab = u.tab /\ v.query = u.query
          /\ u # w => v = u
          /\ u = w => v = Thread(w, "emit", FALSE)
  BY <1>1, <1>2, ThreadFields
<1>4. UNCHANGED <<user, shown, latest, started, posted>>
  BY DEF Search
<1>5. Types'
  BY <1>2, <1>4 DEF IInv, Types, user
<1>6. OnePerTab' /\ Alone'
  <2>1. OnePerTab'
    BY <1>3, <1>4 DEF IInv, Order, OnePerTab
  <2>2. ASSUME NEW v1 \in threads', NEW v2 \in threads', v1.tab = v2.tab PROVE v1 = v2
    <3>1. PICK u1 \in threads : /\ v1.tab = u1.tab /\ (u1 # w => v1 = u1)
                               /\ (u1 = w => v1 = Thread(w, "emit", FALSE))
      BY <1>3
    <3>2. PICK u2 \in threads : /\ v2.tab = u2.tab /\ (u2 # w => v2 = u2)
                               /\ (u2 = w => v2 = Thread(w, "emit", FALSE))
      BY <1>3
    <3>3. u1 = u2
      BY <2>2, <3>1, <3>2 DEF IInv, Order, Alone
    <3> QED
      BY <3>1, <3>2, <3>3
  <2> QED
    BY <2>1, <2>2 DEF Alone
<1>7. ThreadBetween' /\ PostedBeforeThread'
  BY <1>3, <1>4 DEF IInv, Order, ThreadBetween, PostedBeforeThread, user
<1>8. TextBound' /\ PostedBetween' /\ PostedInOrder'
  BY <1>4 DEF IInv, Order, TextBound, PostedBetween, PostedInOrder, user
<1> QED
  BY <1>5, <1>6, <1>7, <1>8 DEF IInv, Order

\* What is posted last comes last: nothing posted for the tab is of a later query, and
\* no other thread of the tab runs.
LEMMA EmitKeeps ==
    ASSUME IInv, NEW w \in threads, Emit(w)
    PROVE  IInv'
<1> DEFINE m == [tab |-> w.tab, query |-> w.query]
<1>1. w \in Threads /\ w.tab \in Tab /\ w.query \in Nat
  BY DEF IInv, Types, Threads
<1>2. m \in Results /\ m.tab = w.tab /\ m.query = w.query
  BY <1>1 DEF Results
<1>3. threads' = threads \ {w} /\ posted' = Append(posted, m)
  BY DEF Emit
<1> HIDE DEF m
<1>4. posted \in Seq(Results) /\ posted' \in Seq(Results)
  BY <1>2, <1>3 DEF IInv, Types
<1>5. \A i \in DOMAIN posted' :
          \/ i \in DOMAIN posted /\ posted'[i] = posted[i]
          \/ i = Len(posted) + 1 /\ posted'[i] = m
  BY <1>3, <1>4
<1>6. \A i \in DOMAIN posted : posted[i] \in Results /\ i \in Nat /\ i <= Len(posted)
  BY <1>4
<1>7. UNCHANGED <<user, shown, latest, started>>
  BY DEF Emit
<1>8. Types'
  BY <1>3, <1>4, <1>7 DEF IInv, Types, user
<1>9. OnePerTab' /\ Alone' /\ TextBound' /\ ThreadBetween'
  BY <1>3, <1>7 DEF IInv, Order, OnePerTab, Alone, TextBound, ThreadBetween, user
<1>10. PostedBetween'
  BY <1>1, <1>2, <1>5, <1>7 DEF IInv, Order, PostedBetween, ThreadBetween, user
<1>11. PostedInOrder'
  <2> SUFFICES ASSUME NEW i \in DOMAIN posted', NEW j \in DOMAIN posted', i < j,
                      posted'[i].tab = posted'[j].tab
               PROVE  posted'[i].query <= posted'[j].query
    BY DEF PostedInOrder
  <2>1. i \in DOMAIN posted /\ posted'[i] = posted[i]
    BY <1>4, <1>5, <1>6
  <2>2. CASE j \in DOMAIN posted /\ posted'[j] = posted[j]
    BY <2>1, <2>2 DEF IInv, Order, PostedInOrder
  <2>3. CASE j = Len(posted) + 1 /\ posted'[j] = m
    BY <1>2, <2>1, <2>3 DEF IInv, Order, PostedBeforeThread
  <2> QED
    BY <1>5, <2>2, <2>3
<1>12. PostedBeforeThread'
  BY <1>2, <1>3, <1>5 DEF IInv, Order, PostedBeforeThread, Alone
<1> QED
  BY <1>8, <1>9, <1>10, <1>11, <1>12 DEF IInv, Order

\* Results are shown in the order of the queue.
LEMMA ShowKeeps ==
    ASSUME IInv, _on_search_results
    PROVE  IInv' /\ \A t \in Tab : shown'[t] >= shown[t]
<1> DEFINE r == Head(posted)
<1>1. posted \in Seq(Results) /\ posted # << >> /\ posted' = Tail(posted)
  BY DEF IInv, Types, _on_search_results
<1>2. /\ posted' \in Seq(Results) /\ 1 \in DOMAIN posted /\ r = posted[1]
      /\ \A i \in DOMAIN posted' :
             i \in Nat /\ i + 1 \in DOMAIN posted /\ 1 < i + 1 /\ posted'[i] = posted[i + 1]
  BY <1>1
<1>3. r \in Results /\ r.tab \in Tab /\ r.query \in Nat
  <2>1. r \in Results
    BY <1>1, <1>2
  <2> QED
    BY <2>1 DEF Results
<1>4. shown' = IF r.tab \in tabs THEN [shown EXCEPT ![r.tab] = r.query] ELSE shown
  BY DEF _on_search_results
<1>5. shown[r.tab] <= r.query /\ r.query <= text[r.tab]
  BY <1>2 DEF IInv, Order, PostedBetween
<1> HIDE DEF r
<1>6. UNCHANGED <<user, threads, latest, started>>
  BY DEF _on_search_results
<1>7. /\ shown' \in [Tab -> Nat]
      /\ \A t \in Tab : /\ shown[t] <= shown'[t]
                        /\ shown'[t] = shown[t] \/ (t = r.tab /\ shown'[t] = r.query)
  BY <1>3, <1>4, <1>5 DEF IInv, Types
<1>8. Types'
  BY <1>2, <1>6, <1>7 DEF IInv, Types, user
<1>9. TextBound'
  BY <1>5, <1>6, <1>7 DEF IInv, Types, Order, TextBound, user
<1>10. OnePerTab' /\ Alone'
  BY <1>6 DEF IInv, Order, OnePerTab, Alone
<1>11. ThreadBetween'
  <2> SUFFICES ASSUME NEW w \in threads PROVE shown'[w.tab] <= w.query /\ w.query <= text[w.tab]
    BY <1>6 DEF ThreadBetween, user
  <2>1. w.tab \in Tab
    BY DEF IInv, Types, Threads
  <2>2. w.tab = r.tab => r.query <= w.query
    BY <1>2 DEF IInv, Order, PostedBeforeThread
  <2> QED
    BY <1>7, <2>1, <2>2 DEF IInv, Order, ThreadBetween
<1>12. PostedBetween'
  <2> SUFFICES ASSUME NEW i \in DOMAIN posted'
               PROVE  /\ shown'[posted'[i].tab] <= posted'[i].query
                      /\ posted'[i].query <= text[posted'[i].tab]
    BY <1>6 DEF PostedBetween, user
  <2>1. i + 1 \in DOMAIN posted /\ 1 < i + 1 /\ posted'[i] = posted[i + 1]
    BY <1>2
  <2>2. posted'[i].tab \in Tab
    <3>1. posted'[i] \in Results
      BY <1>1, <2>1
    <3> QED
      BY <3>1 DEF Results
  <2>3. posted'[i].tab = r.tab => r.query <= posted'[i].query
    BY <1>2, <2>1 DEF IInv, Order, PostedInOrder
  <2> QED
    BY <1>7, <2>1, <2>2, <2>3 DEF IInv, Order, PostedBetween
<1>13. PostedInOrder'
  <2> SUFFICES ASSUME NEW i \in DOMAIN posted', NEW j \in DOMAIN posted', i < j,
                      posted'[i].tab = posted'[j].tab
               PROVE  posted'[i].query <= posted'[j].query
    BY DEF PostedInOrder
  <2>1. /\ i + 1 \in DOMAIN posted /\ j + 1 \in DOMAIN posted /\ i + 1 < j + 1
        /\ posted'[i] = posted[i + 1] /\ posted'[j] = posted[j + 1]
    BY <1>2
  <2> QED
    BY <2>1 DEF IInv, Order, PostedInOrder
<1>14. PostedBeforeThread'
  BY <1>2, <1>6 DEF IInv, Order, PostedBeforeThread
<1>15. \A t \in Tab : shown'[t] >= shown[t]
  BY <1>7 DEF IInv, Types
<1> QED
  BY <1>8, <1>9, <1>10, <1>11, <1>12, <1>13, <1>14, <1>15 DEF IInv, Order

-----------------------------------------------------------------------------
\* Nothing runs, is posted or shown at first.
LEMMA OrderInit == TabsInit => IInv
BY DEF TabsInit, IInv, Types, Order, OnePerTab, Alone, TextBound, ThreadBetween, PostedBetween,
   PostedInOrder, PostedBeforeThread, Results, Threads

\* Every step keeps the order and shows nothing older.
LEMMA OrderStep ==
    ASSUME IInv, [TabsNext]_tabsVars
    PROVE  IInv' /\ \A t \in Tab : shown'[t] >= shown[t]
<1> DEFINE Later == \A t \in Tab : shown'[t] >= shown[t]
<1>1. UNCHANGED shown => Later
  BY DEF IInv, Types
<1>2. UNCHANGED user => Edited
  BY DEF IInv, Types, Order, TextBound, user, Edited
<1>3. EditCurrent => Edited /\ UNCHANGED current
  BY DEF IInv, Types, Order, TextBound, EditCurrent, Edited
<1>4. CASE ThreadStep
  <2>1. PICK w \in threads : Search(w) \/ Emit(w)
    BY <1>4 DEF ThreadStep
  <2>2. UNCHANGED shown
    BY <2>1 DEF Search, Emit
  <2> QED
    BY <2>1, <2>2, <1>1, SearchKeeps, EmitKeeps
<1>5. CASE WaitEnds
  <2>1. current \in Tab /\ UNCHANGED <<user, shown, posted>>
    BY <1>5 DEF WaitEnds, IInv, Types
  <2>2. CASE ~Running(current) /\ Start(current)
    BY <1>1, <1>2, <2>1, <2>2, StartKeeps
  <2>3. CASE UNCHANGED <<threads, latest, started>>
    BY <1>1, <1>2, <2>1, <2>3, EditKeeps
  <2> QED
    BY <1>5, <2>2, <2>3 DEF WaitEnds
<1>6. CASE TimerFires
  <2>1. Edited /\ UNCHANGED <<current, shown>> /\ _execute_search
    BY <1>2, <1>6 DEF TimerFires, user, _execute_search
  <2> QED
    BY <1>1, <2>1, ExecuteKeeps
<1>7. CASE _on_search_results
  BY <1>7, ShowKeeps
<1>8. CASE Typed
  <2>1. Edited /\ UNCHANGED <<threads, latest, started, shown, posted>>
    BY <1>3, <1>8 DEF Typed, search
  <2> QED
    BY <1>1, <2>1, EditKeeps
<1>9. CASE EditAndSearch
  <2>1. Edited /\ UNCHANGED <<current, shown>> /\ _execute_search
    BY <1>3, <1>9 DEF EditAndSearch, _execute_search
  <2> QED
    BY <1>1, <2>1, ExecuteKeeps
<1>10. CASE _trigger_search
  <2>1. Edited
    BY <1>10 DEF _trigger_search, IInv, Types, Order, TextBound, Edited
  <2>2. UNCHANGED <<current, shown>> /\ _execute_search
    BY <1>10 DEF _trigger_search, _execute_search
  <2> QED
    BY <1>1, <2>1, <2>2, ExecuteKeeps
<1>11. CASE \E t \in Tab : _on_tab_changed(t)
  <2>1. Edited /\ UNCHANGED <<threads, latest, started, shown, posted>>
    BY <1>11 DEF _on_tab_changed, IInv, Types, Order, TextBound, Edited, search
  <2> QED
    BY <1>1, <2>1, EditKeeps
<1>12. CASE \E t \in Tab : _close_tab(t)
  <2>1. PICK t \in Tab : _close_tab(t)
    BY <1>12
  <2>2. Edited
    BY <2>1 DEF _close_tab, IInv, Types, Order, TextBound, Edited
  <2>3. threads' = Cancelled(t) /\ UNCHANGED <<latest, started, shown, posted>>
    BY <2>1 DEF _close_tab
  <2> QED
    BY <1>1, <2>2, <2>3, CancelKeeps
<1>13. CASE _on_index_updated \/ UNCHANGED tabsVars
  <2>1. Edited /\ UNCHANGED <<threads, latest, started, shown, posted>>
    BY <1>2, <1>13 DEF _on_index_updated, tabsVars, search
  <2> QED
    BY <1>1, <2>1, EditKeeps
<1> QED
  BY <1>4, <1>5, <1>6, <1>7, <1>8, <1>9, <1>10, <1>11, <1>12, <1>13
     DEF TabsNext, LoopStep, Edit, _on_search_text_changed, _on_workspace_roots_changed,
         _on_search_option_changed, _on_filter_changed, _on_bookmark_activated,
         _hide_path_from_results

\* No tab goes back to the results of an earlier query, whatever the number of tabs,
\* edits and searches, and however late a cancelled search ends.
THEOREM ResultsNeverGoBack == TabsSpec => ResultsInOrder
<1>1. IInv /\ [TabsNext]_tabsVars => IInv'
  BY OrderStep
<1>2. IInv /\ [TabsNext]_tabsVars => [\A t \in Tab : shown'[t] >= shown[t]]_tabsVars
  BY OrderStep
<1> QED
  BY OrderInit, <1>1, <1>2, PTL DEF TabsSpec, ResultsInOrder

-----------------------------------------------------------------------------
(* DriveScan *)


\* Scans of any number of drives are a finite set of pairs.
LEMMA ScansFinite == IsFiniteSet(Scans)
<1>1. IsFiniteSet(Owner) /\ IsFiniteSet(Drive)
  <2>1. IsFiniteSet({"worker"})
    BY FS_Singleton
  <2>2. IsFiniteSet({"worker"} \cup {"gui"})
    BY <2>1, FS_AddElement
  <2>3. Owner = {"worker"} \cup {"gui"}
    BY DEF Owner
  <2> QED BY <2>2, <2>3, DriveScanAssumption DEF DriveScanAssumption
<1> QED BY <1>1, FS_Product DEF Scans

-----------------------------------------------------------------------------
(* The privilege *)

\* No scan runs on a pool thread outside the pool's phase.
PoolEmpty == phase # "scan" => \A d \in Drive : stage[<<"worker", d>>] \in {"idle", "waiting"}

StageOK == stage \in [Scans -> Stages]

\* The flag is the token's state; the counter, the holders and the stages agree.
PrivilegeInv ==
    /\ StageOK
    /\ holders \subseteq Scans
    /\ enabled \in BOOLEAN /\ token = enabled /\ refused \in BOOLEAN
    /\ PoolEmpty
    /\ PrivilegeHeld /\ PrivilegeReleased /\ ReleasedBeforeFallback

\* Initially nothing scans and the privilege is off.
LEMMA PrivilegeInit == Init => PrivilegeInv
<1> SUFFICES ASSUME Init PROVE PrivilegeInv
  OBVIOUS
<1>1. StageOK /\ PoolEmpty
  BY DEF Init, StageOK, Stages, PoolEmpty, Scans, Owner
<1>2. holders \subseteq Scans /\ PrivilegeReleased /\ ReleasedBeforeFallback
  BY DEF Init, PrivilegeReleased, ReleasedBeforeFallback
<1>3. PrivilegeHeld
  BY FS_EmptySet DEF Init, PrivilegeHeld
<1> QED BY <1>1, <1>2, <1>3 DEF Init, PrivilegeInv

\* A step that leaves the privilege alone and moves no holder out of its scope.
LEMMA PrivilegeFrame ==
  ASSUME PrivilegeInv, UNCHANGED privilege, StageOK', PoolEmpty',
         \A s \in holders : stage'[s] \in {"mft", "toEnum", "toDone"}
  PROVE  PrivilegeInv'
<1>1. holders' = holders /\ users' = users /\ enabled' = enabled
      /\ token' = token /\ refused' = refused
  BY DEF privilege
<1>2. PrivilegeHeld'
  BY <1>1 DEF PrivilegeInv, PrivilegeHeld
<1>3. PrivilegeReleased' /\ ReleasedBeforeFallback'
  BY <1>1 DEF PrivilegeInv, PrivilegeReleased, ReleasedBeforeFallback
<1> QED BY <1>1, <1>2, <1>3 DEF PrivilegeInv

\* A scan that runs is one of the event loop or of the pool's phase.
LEMMA OneScanMoves ==
  ASSUME PrivilegeInv, NEW s \in Scans, NEW next \in Stages, phase' = phase,
         stage[s] \notin {"idle", "waiting"},
         stage' = [stage EXCEPT ![s] = next]
  PROVE  StageOK' /\ PoolEmpty' /\ \A t \in Scans : t # s => stage'[t] = stage[t]
<1>1. StageOK' /\ \A t \in Scans : t # s => stage'[t] = stage[t]
  BY DEF PrivilegeInv, StageOK
<1>2. PoolEmpty'
  <2> SUFFICES ASSUME phase # "scan", NEW d \in Drive
               PROVE  stage'[<<"worker", d>>] \in {"idle", "waiting"}
    BY DEF PoolEmpty
  <2>1. <<"worker", d>> \in Scans
    BY DEF Scans, Owner
  <2>2. stage[<<"worker", d>>] \in {"idle", "waiting"}
    BY DEF PrivilegeInv, PoolEmpty
  <2> QED BY <1>1, <2>1, <2>2
<1> QED BY <1>1, <1>2

\* Steps of a scan outside the two ends of its scope.
LEMMA PlainScanStep ==
  ASSUME PrivilegeInv, NEW s \in Scans, OpenVolume(s) \/ ReadMft(s) \/ Enumerate(s)
  PROVE  PrivilegeInv'
<1>1. UNCHANGED privilege /\ phase' = phase
  BY DEF OpenVolume, ReadMft, Enumerate, client
<1>2. PICK next \in Stages : stage' = [stage EXCEPT ![s] = next]
  BY DEF OpenVolume, ReadMft, Enumerate, Stages
<1>3. stage[s] \notin {"idle", "waiting"}
  BY DEF OpenVolume, ReadMft, Enumerate
<1>4. StageOK' /\ PoolEmpty' /\ \A t \in Scans : t # s => stage'[t] = stage[t]
  BY <1>1, <1>2, <1>3, OneScanMoves
<1>5. \A t \in holders : stage'[t] \in {"mft", "toEnum", "toDone"}
  <2>1. CASE ReadMft(s)
    <3>1. stage'[s] \in {"toEnum", "toDone"}
      BY <2>1 DEF ReadMft, PrivilegeInv, StageOK
    <3> QED BY <3>1, <1>4 DEF PrivilegeInv, ReleasedBeforeFallback
  <2>2. CASE OpenVolume(s) \/ Enumerate(s)
    <3>1. s \notin holders
      BY <2>2 DEF OpenVolume, Enumerate, PrivilegeInv, ReleasedBeforeFallback
    <3> QED BY <3>1, <1>4 DEF PrivilegeInv, ReleasedBeforeFallback
  <2> QED BY <2>1, <2>2
<1> QED BY <1>1, <1>4, <1>5, PrivilegeFrame

\* A scan that enters the scope becomes a holder, or goes on without.
LEMMA EnterScopeStep ==
  ASSUME PrivilegeInv, NEW s \in Scans, EnterScope(s)
  PROVE  PrivilegeInv'
<1>1. /\ stage[s] = "open" /\ stage' = [stage EXCEPT ![s] = "mft"] /\ phase' = phase
  BY DEF EnterScope, client
<1>2. StageOK' /\ PoolEmpty' /\ \A t \in Scans : t # s => stage'[t] = stage[t]
  BY <1>1, OneScanMoves DEF Stages
<1>3. stage'[s] = "mft"
  BY <1>1 DEF PrivilegeInv, StageOK
<1>4. s \notin holders
  BY <1>1 DEF PrivilegeInv, ReleasedBeforeFallback
<1>5. CASE ~enabled /\ UNCHANGED privilege
  BY <1>5, <1>2, <1>4, PrivilegeFrame DEF PrivilegeInv, ReleasedBeforeFallback
<1>6. CASE /\ enabled' = TRUE /\ token' = (token \/ ~enabled)
           /\ users' = users + 1 /\ holders' = holders \cup {s} /\ refused' = FALSE
  <2>1. IsFiniteSet(holders)
    BY ScansFinite, FS_Subset DEF PrivilegeInv
  <2>2. Cardinality(holders') = Cardinality(holders) + 1
    BY <1>4, <1>6, <2>1, FS_AddElement
  <2>3. PrivilegeHeld'
    BY <1>6, <2>2 DEF PrivilegeInv, PrivilegeHeld
  <2>4. PrivilegeReleased' /\ holders' \subseteq Scans
    BY <1>6 DEF PrivilegeInv, PrivilegeReleased
  <2>5. ReleasedBeforeFallback'
    BY <1>2, <1>3, <1>6 DEF PrivilegeInv, ReleasedBeforeFallback
  <2> QED BY <1>2, <1>6, <2>3, <2>4, <2>5 DEF PrivilegeInv
<1> QED BY <1>5, <1>6 DEF EnterScope

\* The last holder to leave disables the privilege or is refused; the others
\* keep it.
LEMMA LeaveScopeStep ==
  ASSUME PrivilegeInv, NEW s \in Scans, LeaveScope(s)
  PROVE  PrivilegeInv'
<1>1. /\ stage[s] \in {"toEnum", "toDone"} /\ phase' = phase
      /\ stage' = [stage EXCEPT ![s] = IF stage[s] = "toEnum" THEN "enum" ELSE "done"]
  BY DEF LeaveScope, client
<1>2. StageOK' /\ PoolEmpty' /\ \A t \in Scans : t # s => stage'[t] = stage[t]
  BY <1>1, OneScanMoves DEF Stages
<1>3. CASE s \notin holders
  <2>1. UNCHANGED privilege
    BY <1>3 DEF LeaveScope
  <2> QED BY <2>1, <1>2, <1>3, PrivilegeFrame DEF PrivilegeInv, ReleasedBeforeFallback
<1>4. CASE s \in holders
  <2>1. IsFiniteSet(holders) /\ IsFiniteSet(holders \ {s})
    BY ScansFinite, FS_Subset, FS_RemoveElement DEF PrivilegeInv
  <2>2. /\ Cardinality(holders) \in Nat
        /\ Cardinality(holders \ {s}) = Cardinality(holders) - 1
        /\ Cardinality(holders \ {s}) \in Nat
    BY <1>4, <2>1, FS_RemoveElement, FS_CardinalityType
  <2>3. holders' = holders \ {s}
    BY <1>4 DEF LeaveScope
  <2>4. users = Cardinality(holders) /\ enabled /\ token
    BY <1>4 DEF PrivilegeInv, PrivilegeHeld
  <2>5. users' = Cardinality(holders')
    <3>1. users' = IF users > 0 THEN users - 1 ELSE 0
      BY <1>4 DEF LeaveScope
    <3> QED BY <3>1, <2>2, <2>3, <2>4
  <2>6. users' = 0 <=> holders' = {}
    BY <2>1, <2>3, <2>5, FS_EmptySet
  <2>7. \/ users' = 0 /\ enabled' = FALSE /\ token' = FALSE /\ refused' = FALSE
        \/ users' = 0 /\ refused' = TRUE /\ enabled' = enabled /\ token' = token
        \/ users' # 0 /\ enabled' = enabled /\ token' = token /\ refused' = refused
    BY <1>4, <2>4 DEF LeaveScope
  <2>8. PrivilegeHeld' /\ PrivilegeReleased'
    BY <2>4, <2>5, <2>6, <2>7 DEF PrivilegeHeld, PrivilegeReleased
  <2>9. enabled' \in BOOLEAN /\ token' = enabled' /\ refused' \in BOOLEAN
    BY <2>4, <2>7, Zenon DEF PrivilegeInv
  <2>10. holders' \subseteq Scans /\ ReleasedBeforeFallback'
    BY <1>2, <2>3 DEF PrivilegeInv, ReleasedBeforeFallback
  <2> QED BY <1>2, <2>8, <2>9, <2>10 DEF PrivilegeInv
<1> QED BY <1>3, <1>4

\* What the clients do to the stages of scans.
LEMMA ClientStepPrivilege ==
  ASSUME PrivilegeInv, NEW o \in Owner, NEW d \in Drive,
         \/ WalkBegins(o, d) \/ WalkEnds(o, d) \/ Install(o, d)
         \/ _mark_drive_fresh(o, d)
  PROVE  PrivilegeInv'
<1>1. UNCHANGED privilege /\ phase' = phase
  BY DEF WalkBegins, WalkEnds, Install, _mark_drive_fresh
<1>2. CASE Install(o, d)
  <2>1. <<o, d>> \in Scans
    BY DEF Scans
  <2>2. /\ stage[<<o, d>>] \in {"done", "failed", "raised"}
        /\ stage' = [stage EXCEPT ![<<o, d>>] = "idle"]
    BY <1>2 DEF Install
  <2>3. /\ StageOK' /\ PoolEmpty'
        /\ \A t \in Scans : t # <<o, d>> => stage'[t] = stage[t]
    BY <1>1, <2>1, <2>2, OneScanMoves DEF Stages
  <2>4. <<o, d>> \notin holders
    BY <2>2 DEF PrivilegeInv, ReleasedBeforeFallback
  <2> QED BY <1>1, <2>3, <2>4, PrivilegeFrame DEF PrivilegeInv, ReleasedBeforeFallback
<1>3. CASE WalkBegins(o, d) \/ WalkEnds(o, d) \/ _mark_drive_fresh(o, d)
  <2>1. stage' = stage
    BY <1>3 DEF WalkBegins, WalkEnds, _mark_drive_fresh
  <2>2. StageOK' /\ PoolEmpty'
    BY <1>1, <2>1 DEF PrivilegeInv, StageOK, PoolEmpty
  <2> QED BY <1>1, <2>1, <2>2, PrivilegeFrame DEF PrivilegeInv, ReleasedBeforeFallback
<1> QED BY <1>2, <1>3

\* index_all_drives and the drive refresh start scans where none runs.
LEMMA RequestStepPrivilege ==
  ASSUME PrivilegeInv,
         \/ index_all_drives \/ Submit \/ FallBack \/ indexing_complete
         \/ \E d \in Drive : refresh_drive(d)
  PROVE  PrivilegeInv'
<1>1. UNCHANGED privilege
  BY DEF index_all_drives, Submit, FallBack, indexing_complete, refresh_drive
<1>2. \A d \in Drive : \A o \in Owner : <<o, d>> \in Scans
  BY DEF Scans
<1>3. CASE index_all_drives
  <2>1. stage' = [s \in Scans |-> IF s[1] = "worker" /\ s[2] \in Ntfs \cap present
                                  THEN "waiting" ELSE stage[s]]
    BY <1>3 DEF index_all_drives
  <2>2. \A d \in Drive : stage[<<"worker", d>>] \in {"idle", "waiting"}
    BY <1>3 DEF index_all_drives, PrivilegeInv, PoolEmpty
  <2>3. StageOK' /\ PoolEmpty'
    <3>1. StageOK'
      BY <2>1 DEF PrivilegeInv, StageOK, Stages
    <3>2. \A d \in Drive : stage'[<<"worker", d>>] \in {"idle", "waiting"}
      BY <1>2, <2>1, <2>2 DEF Owner
    <3> QED BY <3>1, <3>2 DEF PoolEmpty
  <2>4. \A s \in holders : stage'[s] = stage[s]
    <3> SUFFICES ASSUME NEW s \in holders PROVE s[1] # "worker"
      BY <2>1 DEF PrivilegeInv
    <3>1. s \in Scans /\ stage[s] \in {"mft", "toEnum", "toDone"}
      BY DEF PrivilegeInv, ReleasedBeforeFallback
    <3>2. s = <<s[1], s[2]>> /\ s[2] \in Drive
      BY <3>1 DEF Scans
    <3> QED BY <3>1, <3>2, <2>2
  <2> QED BY <1>1, <2>3, <2>4, PrivilegeFrame DEF PrivilegeInv, ReleasedBeforeFallback
<1>4. CASE Submit
  <2>1. /\ phase' = "scan"
        /\ stage' = [s \in Scans |-> IF stage[s] = "waiting" THEN "queued" ELSE stage[s]]
    BY <1>4 DEF Submit
  <2>2. StageOK' /\ PoolEmpty'
    BY <2>1 DEF PrivilegeInv, StageOK, PoolEmpty, Stages
  <2>3. \A s \in holders : stage'[s] \in {"mft", "toEnum", "toDone"}
    BY <2>1 DEF PrivilegeInv, ReleasedBeforeFallback
  <2> QED BY <1>1, <2>2, <2>3, PrivilegeFrame
<1>5. CASE FallBack \/ indexing_complete
  <2>1. stage' = stage /\ \A d \in Drive : stage[<<"worker", d>>] \in {"idle", "waiting"}
    BY <1>5 DEF FallBack, indexing_complete, PrivilegeInv, PoolEmpty
  <2>2. StageOK' /\ PoolEmpty'
    BY <2>1 DEF PrivilegeInv, StageOK, PoolEmpty
  <2> QED BY <1>1, <2>1, <2>2, PrivilegeFrame DEF PrivilegeInv, ReleasedBeforeFallback
<1>6. ASSUME NEW d \in Drive, refresh_drive(d) PROVE PrivilegeInv'
  <2>1. stage[<<"gui", d>>] = "idle" /\ phase' = phase
    BY <1>6 DEF refresh_drive, Busy
  <2>2. \/ stage' = stage
        \/ stage' = [stage EXCEPT ![<<"gui", d>>] = "queued"]
    BY <1>6 DEF refresh_drive
  <2>3. <<"gui", d>> \in Scans /\ <<"gui", d>> \notin holders
    BY <1>2, <2>1 DEF Owner, PrivilegeInv, ReleasedBeforeFallback
  <2>4. \A s \in Scans : s # <<"gui", d>> => stage'[s] = stage[s]
    BY <2>2 DEF PrivilegeInv, StageOK
  <2>5. StageOK'
    BY <2>2, <2>3 DEF PrivilegeInv, StageOK, Stages
  <2>6. PoolEmpty'
    BY <1>2, <2>1, <2>4 DEF PrivilegeInv, PoolEmpty, Owner
  <2> QED BY <1>1, <2>3, <2>4, <2>5, <2>6, PrivilegeFrame
          DEF PrivilegeInv, ReleasedBeforeFallback
<1> QED BY <1>3, <1>4, <1>5, <1>6

\* Every step keeps the counter, the flag and the token in agreement.
LEMMA PrivilegeNext == PrivilegeInv /\ [Next]_vars => PrivilegeInv'
<1> SUFFICES ASSUME PrivilegeInv, [Next]_vars PROVE PrivilegeInv'
  OBVIOUS
<1>1. ASSUME NEW d \in Drive, Unplug(d) \/ Plug(d) PROVE PrivilegeInv'
  <2>1. UNCHANGED privilege /\ phase' = phase /\ stage' = stage
    BY <1>1 DEF Unplug, Plug, client
  <2> QED BY <2>1, PrivilegeFrame
          DEF PrivilegeInv, ReleasedBeforeFallback, StageOK, PoolEmpty
<1>2. ASSUME NEW s \in Scans, ScanStep(s) PROVE PrivilegeInv'
  BY <1>2, PlainScanStep, EnterScopeStep, LeaveScopeStep DEF ScanStep
<1>3. ASSUME NEW o \in Owner, ClientStep(o) PROVE PrivilegeInv'
  BY <1>3, ClientStepPrivilege DEF ClientStep
<1>4. CASE UNCHANGED vars
  <2>1. UNCHANGED privilege /\ phase' = phase /\ stage' = stage
    BY <1>4 DEF vars, client
  <2> QED BY <2>1, PrivilegeFrame
          DEF PrivilegeInv, ReleasedBeforeFallback, StageOK, PoolEmpty
<1> QED BY <1>1, <1>2, <1>3, <1>4, RequestStepPrivilege DEF Next

\* Any number of drives: a scan that acquired the privilege has it while it
\* reads $MFT (_backup_privilege_scope).
THEOREM PrivilegeIsHeld == Spec => []PrivilegeHeld
<1>1. PrivilegeInv => PrivilegeHeld
  BY DEF PrivilegeInv
<1> QED BY <1>1, PrivilegeInit, PrivilegeNext, PTL DEF Spec

\* ... and it does not outlive the last of them (_disable_backup_privilege).
THEOREM PrivilegeIsReleased == Spec => []PrivilegeReleased
<1>1. PrivilegeInv => PrivilegeReleased
  BY DEF PrivilegeInv
<1> QED BY <1>1, PrivilegeInit, PrivilegeNext, PTL DEF Spec

-----------------------------------------------------------------------------
(* Listings, on devices that do not fail: every drive but the faulty ones *)

Readable == Drive \ Faulty

Shapes == /\ StageOK
          /\ found \in [Scans -> {"none", "part", "all"}]
          /\ entries \in [Drive -> {"cached", "none", "part", "all"}]
          /\ state \in [Drive -> {"online", "stale", "offline"}]
          /\ walking \in [Owner -> SUBSET Drive]
          /\ marking \in [Owner -> SUBSET Drive]

\* A scan past its volume's open is one of a drive that is there.
ScansPresent ==
    \A s \in Scans :
        s[2] \in Readable
        /\ stage[s] \in {"open", "mft", "toEnum", "enum", "toDone", "done"}
        => s[2] \in present
WalksPresent == \A o \in Owner : walking[o] \cap Readable \subseteq present

\* What is ready to be installed, or to be marked, is complete.
FoundComplete ==
    \A s \in Scans : s[2] \in Readable /\ stage[s] \in {"toDone", "done"}
                       => found[s] = "all"
MarkingComplete == \A o \in Owner : \A d \in marking[o] \cap Readable : entries[d] = "all"

CompleteInv == /\ Shapes /\ ScansPresent /\ WalksPresent
               /\ FoundComplete /\ MarkingComplete /\ OnlineIsComplete

\* Initially nothing is online, nothing is scanned.
LEMMA CompleteInit == Init => CompleteInv
<1> SUFFICES ASSUME Init PROVE CompleteInv
  OBVIOUS
<1>1. Shapes
  BY DEF Init, Shapes, StageOK, Stages
<1>2. ScansPresent /\ FoundComplete
  BY DEF Init, ScansPresent, FoundComplete
<1>3. WalksPresent /\ MarkingComplete /\ OnlineIsComplete
  BY DEF Init, WalksPresent, MarkingComplete, OnlineIsComplete
<1> QED BY <1>1, <1>2, <1>3 DEF CompleteInv

\* Every step of a scan keeps its listing complete when no device fails.
LEMMA CompleteScanStep ==
  ASSUME CompleteInv, NEW s \in Scans, ScanStep(s)
  PROVE  CompleteInv'
<1>1. UNCHANGED <<present, entries, state, walking, marking>>
  BY DEF ScanStep, OpenVolume, EnterScope, ReadMft, LeaveScope, Enumerate,
         outside, index, client
<1>2. WalksPresent' /\ MarkingComplete' /\ OnlineIsComplete'
  BY <1>1 DEF CompleteInv, WalksPresent, MarkingComplete, OnlineIsComplete
<1>3. \A next : stage' = [stage EXCEPT ![s] = next]
                => stage'[s] = next /\ \A t \in Scans : t # s => stage'[t] = stage[t]
  BY DEF CompleteInv, Shapes, StageOK
<1>4. PICK next \in Stages : stage' = [stage EXCEPT ![s] = next]
  BY DEF ScanStep, OpenVolume, EnterScope, ReadMft, LeaveScope, Enumerate, Stages
<1>5. StageOK'
  BY <1>4 DEF CompleteInv, Shapes, StageOK
<1>6. found' = found \/ \E l \in {"none", "part", "all"} : found' = [found EXCEPT ![s] = l]
  <2>1. CASE OpenVolume(s)
    BY <2>1 DEF OpenVolume
  <2>2. CASE EnterScope(s) \/ LeaveScope(s)
    BY <2>2 DEF EnterScope, LeaveScope
  <2>3. CASE ReadMft(s)
    BY <2>3 DEF ReadMft, Listing
  <2>4. CASE Enumerate(s)
    BY <2>4 DEF Enumerate
  <2> QED BY <2>1, <2>2, <2>3, <2>4 DEF ScanStep
<1>7. Shapes'
  BY <1>1, <1>5, <1>6 DEF CompleteInv, Shapes
<1>8. \A t \in Scans : t # s => stage'[t] = stage[t] /\ found'[t] = found[t]
  BY <1>3, <1>4, <1>6 DEF CompleteInv, Shapes
<1>9. /\ s[2] \in Readable
      /\ stage'[s] \in {"open", "mft", "toEnum", "enum", "toDone", "done"}
      => s[2] \in present
  <2>1. CASE OpenVolume(s)
    BY <2>1, <1>3 DEF OpenVolume
  <2>2. CASE EnterScope(s) \/ ReadMft(s) \/ LeaveScope(s) \/ Enumerate(s)
    BY <2>2 DEF EnterScope, ReadMft, LeaveScope, Enumerate, CompleteInv, ScansPresent
  <2> QED BY <2>1, <2>2 DEF ScanStep
<1>10. ScansPresent'
  BY <1>1, <1>8, <1>9 DEF CompleteInv, ScansPresent
<1>11. ASSUME s[2] \in Readable, stage'[s] \in {"toDone", "done"}
       PROVE  found'[s] = "all"
  <2>1. CASE OpenVolume(s)
    BY <2>1, <1>3, <1>11 DEF OpenVolume
  <2>2. CASE EnterScope(s)
    BY <2>2, <1>3, <1>11 DEF EnterScope
  <2>3. CASE ReadMft(s)
    <3>1. Listing(s[2]) = {"all"}
      BY <2>3, <1>11 DEF ReadMft, Listing, CompleteInv, ScansPresent, Readable
    <3> QED BY <2>3, <3>1, <1>3, <1>11 DEF ReadMft, CompleteInv, Shapes
  <2>4. CASE LeaveScope(s)
    <3>1. found' = found /\ stage[s] \in {"toEnum", "toDone"}
          /\ stage'[s] = (IF stage[s] = "toEnum" THEN "enum" ELSE "done")
      BY <2>4, <1>3 DEF LeaveScope
    <3> QED BY <3>1, <1>11 DEF CompleteInv, FoundComplete
  <2>5. CASE Enumerate(s)
    <3>1. Listing(s[2]) = {"all"}
      BY <2>5, <1>11 DEF Enumerate, Listing, CompleteInv, ScansPresent, Readable
    <3> QED BY <2>5, <3>1, <1>3, <1>11 DEF Enumerate, CompleteInv, Shapes
  <2> QED BY <2>1, <2>2, <2>3, <2>4, <2>5 DEF ScanStep
<1>12. FoundComplete'
  BY <1>8, <1>11 DEF CompleteInv, FoundComplete
<1> QED BY <1>2, <1>7, <1>10, <1>12 DEF CompleteInv

\* Walks and installations hand on complete listings only.
LEMMA CompleteClientStep ==
  ASSUME CompleteInv, NEW o \in Owner, NEW d \in Drive,
         \/ WalkBegins(o, d) \/ WalkEnds(o, d) \/ Install(o, d)
         \/ _mark_drive_fresh(o, d)
  PROVE  CompleteInv'
<1>1. present' = present /\ found' = found
  BY DEF WalkBegins, WalkEnds, Install, _mark_drive_fresh, outside
<1>2. CASE WalkBegins(o, d)
  <2>1. /\ UNCHANGED <<stage, entries, marking>>
        /\ \/ d \in present /\ walking' = [walking EXCEPT ![o] = {d}] /\ state' = state
           \/ walking' = walking /\ state' = [state EXCEPT ![d] = "offline"]
    BY <1>2 DEF WalkBegins
  <2>2. Shapes'
    BY <1>1, <2>1 DEF CompleteInv, Shapes, StageOK
  <2>3. ScansPresent' /\ FoundComplete' /\ MarkingComplete'
    BY <1>1, <2>1 DEF CompleteInv, ScansPresent, FoundComplete, MarkingComplete
  <2>4. WalksPresent' /\ OnlineIsComplete'
    BY <1>1, <2>1 DEF CompleteInv, Shapes, WalksPresent, OnlineIsComplete
  <2> QED BY <2>2, <2>3, <2>4 DEF CompleteInv
<1>3. CASE WalkEnds(o, d)
  <2>1. d \in Readable => Listing(d) = {"all"}
    BY <1>3 DEF WalkEnds, Listing, CompleteInv, WalksPresent, Readable
  <2>2. PICK l \in Listing(d) :
        /\ UNCHANGED <<stage, state>> /\ entries' = [entries EXCEPT ![d] = l]
        /\ walking' = [walking EXCEPT ![o] = {}]
        /\ marking' = [marking EXCEPT ![o] = {d}]
    BY <1>3 DEF WalkEnds
  <2>3. Shapes'
    BY <1>1, <2>2 DEF CompleteInv, Shapes, StageOK, Listing
  <2>4. ScansPresent' /\ FoundComplete' /\ WalksPresent'
    BY <1>1, <2>2 DEF CompleteInv, Shapes, ScansPresent, FoundComplete, WalksPresent
  <2>5. MarkingComplete' /\ OnlineIsComplete'
    BY <2>1, <2>2
       DEF CompleteInv, Shapes, MarkingComplete, OnlineIsComplete, Readable
  <2> QED BY <2>3, <2>4, <2>5 DEF CompleteInv
<1>4. CASE Install(o, d)
  <2>1. <<o, d>> \in Scans
    BY DEF Scans
  <2>2. /\ UNCHANGED <<state, walking>> /\ stage' = [stage EXCEPT ![<<o, d>>] = "idle"]
        /\ \/ /\ stage[<<o, d>>] = "done"
              /\ entries' = [entries EXCEPT ![d] = found[<<o, d>>]]
              /\ marking' = [marking EXCEPT ![o] = {d}]
           \/ UNCHANGED <<entries, marking>>
    BY <1>4 DEF Install
  <2>3. d \in Readable /\ stage[<<o, d>>] = "done" => found[<<o, d>>] = "all"
    BY <2>1 DEF CompleteInv, FoundComplete
  <2>4. Shapes'
    BY <1>1, <2>1, <2>2, <2>3 DEF CompleteInv, Shapes, StageOK, Stages
  <2>5. ScansPresent' /\ FoundComplete' /\ WalksPresent'
    BY <1>1, <2>1, <2>2
       DEF CompleteInv, Shapes, StageOK, ScansPresent, FoundComplete, WalksPresent
  <2>6. MarkingComplete' /\ OnlineIsComplete'
    BY <2>2, <2>3
       DEF CompleteInv, Shapes, MarkingComplete, OnlineIsComplete, Readable
  <2> QED BY <2>4, <2>5, <2>6 DEF CompleteInv
<1>5. CASE _mark_drive_fresh(o, d)
  <2>1. /\ UNCHANGED <<stage, entries, walking>> /\ d \in marking[o]
        /\ state' = [state EXCEPT ![d] = "online"]
        /\ marking' = [marking EXCEPT ![o] = {}]
    BY <1>5 DEF _mark_drive_fresh
  <2>2. Shapes'
    BY <1>1, <2>1 DEF CompleteInv, Shapes, StageOK
  <2>3. ScansPresent' /\ FoundComplete' /\ WalksPresent'
    BY <1>1, <2>1 DEF CompleteInv, ScansPresent, FoundComplete, WalksPresent
  <2>4. MarkingComplete' /\ OnlineIsComplete'
    BY <2>1 DEF CompleteInv, Shapes, MarkingComplete, OnlineIsComplete, Readable
  <2> QED BY <2>2, <2>3, <2>4 DEF CompleteInv
<1> QED BY <1>2, <1>3, <1>4, <1>5

\* A request marks drives stale or offline, never online.
LEMMA CompleteRequestStep ==
  ASSUME CompleteInv,
         \/ index_all_drives \/ Submit \/ FallBack \/ indexing_complete
         \/ \E d \in Drive : refresh_drive(d)
  PROVE  CompleteInv'
<1>1. UNCHANGED <<present, found, entries, walking, marking>>
  BY DEF index_all_drives, Submit, FallBack, indexing_complete, refresh_drive,
         outside, index
<1>2. state' \in [Drive -> {"online", "stale", "offline"}]
      /\ \A d \in Drive : state'[d] = "online" => state[d] = "online"
  <2>1. CASE index_all_drives
    BY <2>1 DEF index_all_drives
  <2>2. CASE Submit \/ FallBack \/ indexing_complete
    BY <2>2 DEF Submit, FallBack, indexing_complete, index, CompleteInv, Shapes
  <2>3. ASSUME NEW d \in Drive, refresh_drive(d)
        PROVE  state' \in [Drive -> {"online", "stale", "offline"}]
               /\ \A e \in Drive : state'[e] = "online" => state[e] = "online"
    BY <2>3 DEF refresh_drive, CompleteInv, Shapes
  <2> QED BY <2>1, <2>2, <2>3
<1>3. StageOK'
  <2>1. CASE index_all_drives \/ Submit \/ FallBack \/ indexing_complete
    BY <2>1 DEF index_all_drives, Submit, FallBack, indexing_complete, CompleteInv,
                Shapes, StageOK, Stages
  <2>2. ASSUME NEW d \in Drive, refresh_drive(d) PROVE StageOK'
    BY <2>2 DEF refresh_drive, CompleteInv, Shapes, StageOK, Stages
  <2> QED BY <2>1, <2>2
<1>4. \A s \in Scans : stage'[s] \in {"waiting", "queued", stage[s]}
  <2>1. CASE index_all_drives \/ Submit \/ FallBack \/ indexing_complete
    BY <2>1 DEF index_all_drives, Submit, FallBack, indexing_complete
  <2>2. ASSUME NEW d \in Drive, refresh_drive(d)
        PROVE  \A s \in Scans : stage'[s] \in {"waiting", "queued", stage[s]}
    BY <2>2 DEF refresh_drive, CompleteInv, Shapes, StageOK
  <2> QED BY <2>1, <2>2
<1>5. ScansPresent' /\ FoundComplete'
  BY <1>1, <1>4 DEF CompleteInv, ScansPresent, FoundComplete
<1>6. WalksPresent' /\ MarkingComplete' /\ OnlineIsComplete'
  BY <1>1, <1>2 DEF CompleteInv, WalksPresent, MarkingComplete, OnlineIsComplete
<1> QED BY <1>1, <1>2, <1>3, <1>5, <1>6 DEF CompleteInv, Shapes

\* No step of the system hands on a part of a drive unless a device fails.
LEMMA CompleteNext == CompleteInv /\ [Next]_vars => CompleteInv'
<1> SUFFICES ASSUME CompleteInv, [Next]_vars PROVE CompleteInv'
  OBVIOUS
<1>1. ASSUME NEW d \in Drive, Unplug(d) \/ Plug(d) PROVE CompleteInv'
  <2>1. UNCHANGED <<stage, found, entries, state, walking, marking>>
        /\ \A e \in Readable : e \in present => e \in present'
    BY <1>1 DEF Unplug, Plug, client, index, Readable
  <2>2. Shapes' /\ FoundComplete' /\ MarkingComplete' /\ OnlineIsComplete'
    BY <2>1 DEF CompleteInv, Shapes, StageOK, FoundComplete, MarkingComplete,
                OnlineIsComplete
  <2>3. ScansPresent' /\ WalksPresent'
    BY <2>1 DEF CompleteInv, ScansPresent, WalksPresent
  <2> QED BY <2>2, <2>3 DEF CompleteInv
<1>2. ASSUME NEW s \in Scans, ScanStep(s) PROVE CompleteInv'
  BY <1>2, CompleteScanStep
<1>3. ASSUME NEW o \in Owner, ClientStep(o) PROVE CompleteInv'
  BY <1>3, CompleteClientStep DEF ClientStep
<1>4. CASE UNCHANGED vars
  <2>1. UNCHANGED <<stage, found, entries, state, walking, marking, present>>
    BY <1>4 DEF vars, client, index, outside
  <2> QED BY <2>1 DEF CompleteInv, Shapes, StageOK, ScansPresent, WalksPresent,
                      FoundComplete, MarkingComplete, OnlineIsComplete
<1> QED BY <1>1, <1>2, <1>3, <1>4, CompleteRequestStep DEF Next

\* Every drive shown as online whose device can be read is listed completely,
\* whichever volume, $MFT, pool thread or other device failed on the way.
THEOREM OnlineDrivesComplete == Spec => []OnlineIsComplete
<1>1. CompleteInv /\ [Next]_vars => CompleteInv'
  BY CompleteNext
<1>2. CompleteInv => OnlineIsComplete
  BY DEF CompleteInv
<1> QED BY <1>1, <1>2, CompleteInit, PTL DEF Spec

-----------------------------------------------------------------------------
(* No drive is left stale *)

WorkShapes ==
    /\ stage \in [Scans -> Stages]
    /\ state \in [Drive -> {"online", "stale", "offline"}]
    /\ asked \in [Owner -> Nat]
    /\ todo \in [Owner -> SUBSET Drive]
    /\ walking \in [Owner -> SUBSET Drive] /\ marking \in [Owner -> SUBSET Drive]

\* A client reads one drive at a time and marks it before it reads the next.
OneWalk ==
    \A o \in Owner :
        /\ \A d, e \in walking[o] : d = e
        /\ \A d, e \in marking[o] : d = e
        /\ walking[o] # {} => marking[o] = {}

\* The event loop refreshes one drive: it scans it, or walks it.  The worker's pool
\* runs while it walks nothing.
WalkOrScan ==
    /\ phase = "scan" => walking["worker"] = {}
    /\ \A d, e \in Drive :
          stage[<<"gui", d>>] # "idle" /\ stage[<<"gui", e>>] # "idle" => d = e
    /\ todo["gui"] \cup walking["gui"] # {} => \A d \in Drive : stage[<<"gui", d>>] = "idle"

\* The client still has something to do for the drive.
Owned(o, d) == \/ d \in todo[o] \cup walking[o] \cup marking[o]
               \/ stage[<<o, d>>] # "idle"

IdleWorker == phase = "idle" => \A d \in Drive : ~Owned("worker", d)

\* After the first indexing a stale drive is one somebody works on, or one whose
\* refresh raised.
StaleOwned ==
    asked["worker"] > 0 =>
        \A d \in Drive : state[d] = "stale" => d \in raised \/ \E o \in Owner : Owned(o, d)

WorkInv == WorkShapes /\ OneWalk /\ WalkOrScan /\ IdleWorker /\ StaleOwned

\* Initially nobody works and nothing has been asked.
LEMMA WorkInit == Init => WorkInv
<1> SUFFICES ASSUME Init PROVE WorkInv
  OBVIOUS
<1>1. WorkShapes
  BY DEF Init, WorkShapes, Stages
<1>2. OneWalk /\ WalkOrScan
  BY DEF Init, OneWalk, WalkOrScan, Scans, Owner
<1>3. IdleWorker /\ StaleOwned
  BY DEF Init, IdleWorker, StaleOwned, Owned, Scans, Owner
<1> QED BY <1>1, <1>2, <1>3 DEF WorkInv

\* What every client owns is a pair of scans.
LEMMA PairsAreScans == "gui" \in Owner /\ "worker" \in Owner
                       /\ \A o \in Owner, d \in Drive : <<o, d>> \in Scans
BY DEF Owner, Scans

\* A scan that goes on stays its client's.
LEMMA WorkScanStep ==
  ASSUME WorkInv, NEW s \in Scans, ScanStep(s)
  PROVE  WorkInv'
<1>1. UNCHANGED <<state, asked, raised, phase, todo, walking, marking>>
  BY DEF ScanStep, OpenVolume, EnterScope, ReadMft, LeaveScope, Enumerate, index, client
<1>2. PICK next \in Stages \ {"idle"} : stage' = [stage EXCEPT ![s] = next]
  BY DEF ScanStep, OpenVolume, EnterScope, ReadMft, LeaveScope, Enumerate, Stages
<1>3. stage[s] # "idle"
  BY DEF ScanStep, OpenVolume, EnterScope, ReadMft, LeaveScope, Enumerate
<1>4. stage \in [Scans -> Stages]
  BY DEF WorkInv, WorkShapes
<1>5. \A t \in Scans : stage'[t] = "idle" <=> stage[t] = "idle"
  BY <1>2, <1>3, <1>4
<1>6. WorkShapes'
  BY <1>1, <1>2, <1>4 DEF WorkInv, WorkShapes
<1>7. OneWalk' /\ WalkOrScan'
  BY <1>1, <1>5, PairsAreScans DEF WorkInv, OneWalk, WalkOrScan
<1>8. \A o \in Owner, d \in Drive : Owned(o, d)' <=> Owned(o, d)
  BY <1>1, <1>5, PairsAreScans DEF Owned
<1>9. IdleWorker' /\ StaleOwned'
  BY <1>1, <1>8, PairsAreScans DEF WorkInv, IdleWorker, StaleOwned
<1> QED BY <1>6, <1>7, <1>9 DEF WorkInv

\* What a step leaves owned when only one client and one drive move.
LEMMA OwnersKept ==
  ASSUME WorkInv, WorkShapes', NEW o \in Owner, NEW d \in Drive,
         UNCHANGED <<asked, phase>>, raised \subseteq raised',
         phase = "idle" => o # "worker",
         \A p \in Owner : p # o => /\ todo'[p] = todo[p] /\ walking'[p] = walking[p]
                                   /\ marking'[p] = marking[p],
         \A t \in Scans : t # <<o, d>> => stage'[t] = stage[t],
         \A e \in Drive : e # d /\ Owned(o, e) => Owned(o, e)',
         \A e \in Drive : e # d => state'[e] = state[e],
         state'[d] = "stale" => state[d] = "stale" /\ (d \in raised' \/ Owned(o, d)')
  PROVE  IdleWorker' /\ StaleOwned'
<1>1. \A p \in Owner, e \in Drive : p # o => (Owned(p, e)' <=> Owned(p, e))
  BY PairsAreScans DEF Owned
<1>2. IdleWorker'
  BY <1>1, PairsAreScans DEF WorkInv, IdleWorker
<1>3. ASSUME asked["worker"] > 0, NEW e \in Drive, state'[e] = "stale"
      PROVE  e \in raised' \/ \E p \in Owner : Owned(p, e)'
  <2>1. CASE e = d
    BY <2>1, <1>3
  <2>2. CASE e # d
    <3>1. e \in raised \/ \E p \in Owner : Owned(p, e)
      BY <2>2, <1>3 DEF WorkInv, StaleOwned
    <3> QED BY <3>1, <2>2, <1>1
  <2> QED BY <2>1, <2>2
<1> QED BY <1>2, <1>3 DEF StaleOwned

\* A client goes from one drive's listing to its mark, and to the next drive.
LEMMA WorkClientStep ==
  ASSUME WorkInv, NEW o \in Owner, NEW d \in Drive,
         \/ WalkBegins(o, d) \/ WalkEnds(o, d) \/ Install(o, d)
         \/ _mark_drive_fresh(o, d)
  PROVE  WorkInv'
<1>1. /\ UNCHANGED <<asked, phase>> /\ raised \subseteq raised'
  BY DEF WalkBegins, WalkEnds, Install, _mark_drive_fresh
<1>2. /\ stage \in [Scans -> Stages] /\ todo \in [Owner -> SUBSET Drive]
      /\ walking \in [Owner -> SUBSET Drive] /\ marking \in [Owner -> SUBSET Drive]
      /\ state \in [Drive -> {"online", "stale", "offline"}]
  BY DEF WorkInv, WorkShapes
<1>3. <<o, d>> \in Scans /\ (o = "worker" \/ o = "gui")
  BY PairsAreScans DEF Owner
<1>4. CASE WalkBegins(o, d)
  <2>1. /\ d \in todo[o] /\ walking[o] = {} /\ marking[o] = {}
        /\ o = "worker" => phase \in {"walk", "fallback"}
        /\ todo' = [todo EXCEPT ![o] = todo[o] \ {d}]
        /\ UNCHANGED <<stage, marking>>
        /\ \/ walking' = [walking EXCEPT ![o] = {d}] /\ state' = state
           \/ walking' = walking /\ state' = [state EXCEPT ![d] = "offline"]
    BY <1>4 DEF WalkBegins
  <2>2. WorkShapes'
    BY <1>1, <1>2, <2>1 DEF WorkInv, WorkShapes
  <2>3. OneWalk'
    BY <1>2, <2>1 DEF WorkInv, OneWalk
  <2>4. WalkOrScan'
    <3>1. \A q \in Owner : q # o => walking'[q] = walking[q] /\ todo'[q] = todo[q]
      BY <1>2, <2>1
    <3>2. CASE o = "worker"
      <4>1. UNCHANGED <<walking["gui"], todo["gui"]>>
        BY <3>1, <3>2, PairsAreScans
      <4> QED BY <1>1, <2>1, <3>2, <4>1 DEF WorkInv, WalkOrScan
    <3>3. CASE o = "gui"
      <4>1. walking'["worker"] = walking["worker"]
        BY <3>1, <3>3, PairsAreScans
      <4>2. \A e \in Drive : stage[<<"gui", e>>] = "idle"
        BY <2>1, <3>3 DEF WorkInv, WalkOrScan
      <4> QED BY <1>1, <2>1, <4>1, <4>2 DEF WorkInv, WalkOrScan
    <3> QED BY <1>3, <3>2, <3>3
  <2>5. /\ \A e \in Drive : e # d /\ Owned(o, e) => Owned(o, e)'
        /\ state'[d] = "stale" => state[d] = "stale" /\ Owned(o, d)'
    BY <1>2, <2>1 DEF Owned
  <2>6. /\ \A q \in Owner : q # o => /\ todo'[q] = todo[q] /\ walking'[q] = walking[q]
                                     /\ marking'[q] = marking[q]
        /\ \A e \in Drive : e # d => state'[e] = state[e]
    BY <1>2, <2>1
  <2> QED BY <1>1, <2>1, <2>2, <2>3, <2>4, <2>5, <2>6, OwnersKept DEF WorkInv
<1>5. CASE WalkEnds(o, d)
  <2>1. /\ d \in walking[o] /\ UNCHANGED <<stage, state, todo>>
        /\ walking' = [walking EXCEPT ![o] = {}]
        /\ marking' = [marking EXCEPT ![o] = {d}]
    BY <1>5 DEF WalkEnds
  <2>2. WorkShapes'
    BY <1>1, <1>2, <2>1 DEF WorkInv, WorkShapes
  <2>3. OneWalk'
    BY <1>2, <2>1 DEF WorkInv, OneWalk
  <2>4. WalkOrScan'
    BY <1>1, <1>2, <1>3, <2>1 DEF WorkInv, WalkOrScan
  <2>5. /\ \A e \in walking[o] : e = d
        /\ marking[o] = {}
    BY <2>1 DEF WorkInv, OneWalk
  <2>6. /\ \A e \in Drive : e # d /\ Owned(o, e) => Owned(o, e)'
        /\ Owned(o, d)'
    BY <1>2, <2>1, <2>5 DEF Owned
  <2>7. \A q \in Owner : q # o => /\ todo'[q] = todo[q] /\ walking'[q] = walking[q]
                                  /\ marking'[q] = marking[q]
    BY <1>2, <2>1
  <2>8. phase = "idle" => o # "worker"
    BY <2>1 DEF WorkInv, IdleWorker, Owned
  <2> QED BY <1>1, <2>1, <2>2, <2>3, <2>4, <2>6, <2>7, <2>8, OwnersKept DEF WorkInv
<1>6. CASE Install(o, d)
  <2>1. /\ o = "worker" => phase = "scan"
        /\ marking[o] = {} /\ UNCHANGED <<walking, state>>
        /\ stage[<<o, d>>] # "idle"
        /\ stage' = [stage EXCEPT ![<<o, d>>] = "idle"]
        /\ \/ /\ marking' = [marking EXCEPT ![o] = {d}] /\ todo' = todo
           \/ /\ todo' = [todo EXCEPT ![o] = todo[o] \cup {d}] /\ marking' = marking
           \/ /\ d \in raised' /\ marking' = marking /\ todo' = todo
    BY <1>6 DEF Install
  <2>2. WorkShapes'
    <3>1. stage' \in [Scans -> Stages] /\ state' \in [Drive -> {"online", "stale", "offline"}]
      BY <1>1, <2>1 DEF WorkInv, WorkShapes, Stages
    <3>2. todo' \in [Owner -> SUBSET Drive] /\ marking' \in [Owner -> SUBSET Drive]
          /\ walking' \in [Owner -> SUBSET Drive]
      BY <1>1, <2>1 DEF WorkInv, WorkShapes
    <3> QED BY <1>1, <1>2, <3>1, <3>2 DEF WorkInv, WorkShapes
  <2>3. walking[o] = {}
    BY <1>3, <2>1 DEF WorkInv, WalkOrScan
  <2>4. OneWalk'
    BY <1>2, <2>1, <2>3 DEF WorkInv, OneWalk
  <2>5. \A t \in Scans : stage'[t] = IF t = <<o, d>> THEN "idle" ELSE stage[t]
    BY <1>2, <2>1
  <2>6. WalkOrScan'
    <3>1. \A e \in Drive : stage'[<<"gui", e>>] \in {"idle", stage[<<"gui", e>>]}
      BY <2>5, PairsAreScans
    <3>2. o = "gui" => \A e \in Drive : stage'[<<"gui", e>>] = "idle"
      BY <2>1, <2>5, PairsAreScans DEF WorkInv, WalkOrScan
    <3>3. o # "gui" => todo'["gui"] = todo["gui"]
      BY <1>2, <1>3, <2>1, PairsAreScans
    <3> QED BY <1>1, <2>1, <3>1, <3>2, <3>3, <1>3 DEF WorkInv, WalkOrScan
  <2>7. /\ \A e \in Drive : e # d /\ Owned(o, e) => Owned(o, e)'
        /\ d \in raised' \/ Owned(o, d)'
    <3>1. \A e \in Drive : e # d => <<o, e>> \in Scans /\ <<o, e>> # <<o, d>>
      BY PairsAreScans
    <3>2. todo[o] \subseteq todo'[o] /\ (d \in raised' \/ d \in todo'[o] \cup marking'[o])
      BY <1>2, <2>1
    <3> QED BY <2>1, <2>5, <3>1, <3>2 DEF Owned
  <2>8. \A q \in Owner : q # o => /\ todo'[q] = todo[q] /\ walking'[q] = walking[q]
                                  /\ marking'[q] = marking[q]
    BY <1>2, <2>1
  <2> QED BY <1>1, <2>1, <2>2, <2>4, <2>5, <2>6, <2>7, <2>8, OwnersKept DEF WorkInv
<1>7. CASE _mark_drive_fresh(o, d)
  <2>1. /\ d \in marking[o] /\ UNCHANGED <<stage, todo, walking>>
        /\ marking' = [marking EXCEPT ![o] = {}]
        /\ state' = [state EXCEPT ![d] = "online"]
    BY <1>7 DEF _mark_drive_fresh
  <2>2. WorkShapes'
    BY <1>1, <1>2, <2>1 DEF WorkInv, WorkShapes
  <2>3. OneWalk'
    BY <1>2, <2>1 DEF WorkInv, OneWalk
  <2>4. WalkOrScan'
    BY <1>1, <2>1 DEF WorkInv, WalkOrScan
  <2>5. \A e \in Drive : e # d /\ Owned(o, e) => Owned(o, e)'
    <3>1. \A e \in marking[o] : e = d
      BY <2>1 DEF WorkInv, OneWalk
    <3> QED BY <2>1, <3>1 DEF Owned
  <2>6. /\ \A q \in Owner : q # o => /\ todo'[q] = todo[q] /\ walking'[q] = walking[q]
                                     /\ marking'[q] = marking[q]
        /\ \A e \in Drive : e # d => state'[e] = state[e]
        /\ state'[d] # "stale"
    BY <1>2, <2>1
  <2>7. phase = "idle" => o # "worker"
    BY <2>1 DEF WorkInv, IdleWorker, Owned
  <2> QED BY <1>1, <2>1, <2>2, <2>3, <2>4, <2>5, <2>6, <2>7, OwnersKept DEF WorkInv
<1> QED BY <1>4, <1>5, <1>6, <1>7

\* Nobody owns a drive when the client is not busy.
LEMMA BusyOwns == ASSUME WorkShapes, NEW o \in Owner, ~Busy(o)
                  PROVE  \A d \in Drive : ~Owned(o, d)
BY DEF WorkShapes, Busy, Owned

\* An indexing owns every drive it marks stale; a refresh owns its one drive.
LEMMA WorkRequestStep ==
  ASSUME WorkInv,
         \/ index_all_drives \/ Submit \/ FallBack \/ indexing_complete
         \/ \E d \in Drive : refresh_drive(d)
  PROVE  WorkInv'
<1>1. /\ stage \in [Scans -> Stages] /\ todo \in [Owner -> SUBSET Drive]
      /\ asked \in [Owner -> Nat]
      /\ state \in [Drive -> {"online", "stale", "offline"}]
  BY DEF WorkInv, WorkShapes
<1>2. UNCHANGED <<walking, marking>>
  BY DEF index_all_drives, Submit, FallBack, indexing_complete, refresh_drive
<1>3. CASE index_all_drives
  <2>1. /\ phase = "idle" /\ phase' = "walk" /\ raised' = raised
        /\ asked' = [asked EXCEPT !["worker"] = asked["worker"] + 1]
        /\ state' = [d \in Drive |-> IF d \in present THEN "stale" ELSE "offline"]
        /\ todo' = [todo EXCEPT !["worker"] = Drive \ (Ntfs \cap present)]
        /\ stage' = [s \in Scans |-> IF s[1] = "worker" /\ s[2] \in Ntfs \cap present
                                     THEN "waiting" ELSE stage[s]]
    BY <1>3 DEF index_all_drives
  <2>2. WorkShapes'
    <3>1. stage' \in [Scans -> Stages]
      BY <1>1, <2>1 DEF Stages
    <3>2. todo' \in [Owner -> SUBSET Drive]
      BY <1>1, <2>1
    <3>3. asked' \in [Owner -> Nat]
      <4>1. asked["worker"] + 1 \in Nat
        BY <1>1, PairsAreScans
      <4> QED BY <1>1, <2>1, <4>1
    <3>4. state' \in [Drive -> {"online", "stale", "offline"}]
      BY <2>1
    <3> QED BY <1>2, <3>1, <3>2, <3>3, <3>4 DEF WorkInv, WorkShapes
  <2>3. OneWalk'
    BY <1>2 DEF WorkInv, OneWalk
  <2>4. \A d \in Drive : stage'[<<"gui", d>>] = stage[<<"gui", d>>]
    BY <2>1, PairsAreScans
  <2>5. WalkOrScan'
    BY <1>1, <1>2, <2>1, <2>4 DEF WorkInv, WalkOrScan
  <2>6. \A d \in Drive : Owned("worker", d)'
    <3>1. \A d \in Drive : d \in Ntfs \cap present => stage'[<<"worker", d>>] = "waiting"
      BY <2>1, PairsAreScans
    <3>2. \A d \in Drive : d \notin Ntfs \cap present => d \in todo'["worker"]
      BY <1>1, <2>1, PairsAreScans
    <3> QED BY <3>1, <3>2 DEF Owned
  <2>7. IdleWorker' /\ StaleOwned'
    BY <2>1, <2>6, PairsAreScans DEF IdleWorker, StaleOwned
  <2> QED BY <2>2, <2>3, <2>5, <2>7 DEF WorkInv
<1>4. CASE Submit
  <2>1. /\ phase = "walk" /\ phase' = "scan" /\ walking["worker"] = {}
        /\ UNCHANGED <<raised, asked, state, todo>>
        /\ stage' = [s \in Scans |-> IF stage[s] = "waiting" THEN "queued" ELSE stage[s]]
    BY <1>4 DEF Submit, index
  <2>2. \A s \in Scans : stage'[s] = "idle" <=> stage[s] = "idle"
    BY <2>1
  <2>3. WorkShapes'
    BY <1>1, <1>2, <2>1 DEF WorkInv, WorkShapes, Stages
  <2>4. OneWalk' /\ WalkOrScan'
    BY <1>2, <2>1, <2>2, PairsAreScans DEF WorkInv, OneWalk, WalkOrScan
  <2>5. \A o \in Owner, d \in Drive : Owned(o, d)' <=> Owned(o, d)
    BY <1>2, <2>1, <2>2, PairsAreScans DEF Owned
  <2>6. IdleWorker' /\ StaleOwned'
    BY <2>1, <2>5, PairsAreScans DEF WorkInv, IdleWorker, StaleOwned
  <2> QED BY <2>3, <2>4, <2>6 DEF WorkInv
<1>5. CASE FallBack \/ indexing_complete
  <2>1. /\ UNCHANGED <<raised, asked, state, todo, stage>> /\ phase' # "scan"
        /\ phase' = "idle" => ~Busy("worker")
    BY <1>5 DEF FallBack, indexing_complete, index
  <2>2. WorkShapes' /\ OneWalk' /\ WalkOrScan'
    BY <1>2, <2>1 DEF WorkInv, WorkShapes, OneWalk, WalkOrScan
  <2>3. \A o \in Owner, d \in Drive : Owned(o, d)' <=> Owned(o, d)
    BY <1>2, <2>1 DEF Owned
  <2>4. phase' = "idle" => \A d \in Drive : ~Owned("worker", d)
    BY <2>1, BusyOwns, PairsAreScans DEF WorkInv
  <2>5. IdleWorker' /\ StaleOwned'
    BY <2>1, <2>3, <2>4, PairsAreScans DEF WorkInv, IdleWorker, StaleOwned
  <2> QED BY <2>2, <2>5 DEF WorkInv
<1>6. ASSUME NEW d \in Drive, refresh_drive(d) PROVE WorkInv'
  <2>1. /\ ~Busy("gui") /\ UNCHANGED phase /\ raised' = raised \ {d}
        /\ asked' = [asked EXCEPT !["gui"] = asked["gui"] + 1]
        /\ \/ /\ state' = [state EXCEPT ![d] = "offline"] /\ UNCHANGED <<todo, stage>>
           \/ /\ state' = [state EXCEPT ![d] = "stale"] /\ todo' = todo
              /\ stage' = [stage EXCEPT ![<<"gui", d>>] = "queued"]
           \/ /\ state' = [state EXCEPT ![d] = "stale"] /\ stage' = stage
              /\ todo' = [todo EXCEPT !["gui"] = {d}]
    BY <1>6 DEF refresh_drive
  <2>2. WorkShapes'
    BY <1>1, <1>2, <2>1, PairsAreScans DEF WorkInv, WorkShapes, Stages
  <2>3. OneWalk'
    BY <1>2 DEF WorkInv, OneWalk
  <2>4. /\ \A e \in Drive : stage[<<"gui", e>>] = "idle"
        /\ todo["gui"] = {} /\ walking["gui"] = {} /\ marking["gui"] = {}
    BY <2>1 DEF Busy
  <2>5. \A t \in Scans : t # <<"gui", d>> => stage'[t] = stage[t]
    BY <1>1, <2>1
  <2>6. WalkOrScan'
    <3>1. \A e \in Drive : e # d => stage'[<<"gui", e>>] = "idle"
      BY <2>4, <2>5, PairsAreScans
    <3>2. todo'["gui"] = {} \/ stage'[<<"gui", d>>] = "idle"
      BY <1>1, <2>1, <2>4
    <3> QED BY <1>2, <2>1, <2>4, <3>1, <3>2 DEF WorkInv, WalkOrScan
  <2>7. \A e \in Drive : Owned("worker", e)' <=> Owned("worker", e)
    <3>1. todo'["worker"] = todo["worker"]
      BY <1>1, <2>1, PairsAreScans
    <3>2. \A e \in Drive : stage'[<<"worker", e>>] = stage[<<"worker", e>>]
      BY <2>5, PairsAreScans
    <3> QED BY <1>2, <3>1, <3>2 DEF Owned
  <2>8. \A e \in Drive : ~Owned("gui", e)
    BY <2>1, BusyOwns, PairsAreScans DEF WorkInv
  <2>9. state'[d] = "stale" => Owned("gui", d)'
    BY <1>1, <2>1, PairsAreScans DEF Owned
  <2>10. \A e \in Drive : e # d => state'[e] = state[e]
    BY <1>1, <2>1
  <2>11. IdleWorker'
    BY <2>1, <2>7 DEF WorkInv, IdleWorker
  <2>12. asked'["worker"] = asked["worker"]
    BY <1>1, <2>1
  <2>13. StaleOwned'
    <3> SUFFICES ASSUME asked["worker"] > 0, NEW e \in Drive, state'[e] = "stale"
                 PROVE  e \in raised' \/ \E o \in Owner : Owned(o, e)'
      BY <2>12 DEF StaleOwned
    <3>1. CASE e = d
      BY <3>1, <2>9, PairsAreScans
    <3>2. CASE e # d
      <4>1. state[e] = "stale"
        BY <3>2, <2>10
      <4>2. e \in raised \/ Owned("worker", e) \/ Owned("gui", e)
        BY <4>1 DEF WorkInv, StaleOwned, Owner
      <4> QED BY <4>2, <3>2, <2>1, <2>7, <2>8, PairsAreScans
    <3> QED BY <3>1, <3>2
  <2> QED BY <2>2, <2>3, <2>6, <2>11, <2>13 DEF WorkInv
<1> QED BY <1>3, <1>4, <1>5, <1>6

\* Every step leaves each stale drive to somebody.
LEMMA WorkNext == WorkInv /\ [Next]_vars => WorkInv'
<1> SUFFICES ASSUME WorkInv, [Next]_vars PROVE WorkInv'
  OBVIOUS
<1>1. ASSUME UNCHANGED <<client, stage, index>> PROVE WorkInv'
  <2>1. UNCHANGED <<stage, phase, asked, todo, walking, marking, raised, state>>
    BY <1>1 DEF client, index
  <2>2. WorkShapes' /\ OneWalk' /\ WalkOrScan'
    BY <2>1 DEF WorkInv, WorkShapes, OneWalk, WalkOrScan
  <2>3. IdleWorker' /\ StaleOwned'
    BY <2>1 DEF WorkInv, IdleWorker, StaleOwned, Owned
  <2> QED BY <2>2, <2>3 DEF WorkInv
<1>2. ASSUME NEW d \in Drive, Unplug(d) \/ Plug(d) PROVE WorkInv'
  BY <1>1, <1>2 DEF Unplug, Plug
<1>3. ASSUME NEW s \in Scans, ScanStep(s) PROVE WorkInv'
  BY <1>3, WorkScanStep
<1>4. ASSUME NEW o \in Owner, ClientStep(o) PROVE WorkInv'
  BY <1>4, WorkClientStep DEF ClientStep
<1>5. CASE UNCHANGED vars
  BY <1>1, <1>5 DEF vars
<1> QED BY <1>2, <1>3, <1>4, <1>5, WorkRequestStep DEF Next

\* After an indexing no drive stays "stale" for good, whichever volume, $MFT, pool
\* thread or refresh failed: each is walked, found offline, or its refresh told an
\* error (index_all_drives, refresh_drive).
THEOREM StaleDrivesAreServed == Spec => []NothingLeftStale
<1>1. WorkInv => NothingLeftStale
  <2> SUFFICES ASSUME WorkInv, asked["worker"] > 0, phase = "idle", ~Busy("gui"),
                      NEW d \in Drive \ raised, state[d] = "stale"
               PROVE  FALSE
    BY DEF NothingLeftStale
  <2>1. ~Owned("gui", d)
    BY BusyOwns, PairsAreScans DEF WorkInv
  <2>2. ~Owned("worker", d)
    BY DEF WorkInv, IdleWorker
  <2> QED BY <2>1, <2>2 DEF WorkInv, StaleOwned, Owner
<1> QED BY <1>1, WorkInit, WorkNext, PTL DEF Spec
=============================================================================
