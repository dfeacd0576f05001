------------------------ MODULE InspectorStoreProofs ------------------------
(***************************************************************************)
(* What holds of the viewer's store for any number of endpoints, loads and *)
(* saves: what is drawn is of the graph the tab is on, a reload brings     *)
(* back that graph and its credential, and a save stands where it belongs. *)
(***************************************************************************)
EXTENDS InspectorStore, TLAPS

(* Requests and answers are those of the endpoint in memory.               *)
RequestInv ==
    /\ \A k \in Kinds : cur[k] \in {None, endpoint} /\ data[k] \in {None, endpoint}
    /\ file => endpoint = None
    /\ \A l \in Loads : pc[l] = "layout" => lreq[l] \in Endpoints

(* What the tab's storage holds is what is in memory.                      *)
SessionInv ==
    /\ session = IF endpoint = None THEN None ELSE [e |-> endpoint, t |-> token]
    /\ endpoint = None => token = None
    /\ file => fileSession \in {"name", "graph"}

(* A graph whose version has to be acknowledged is not even asked for      *)
(* before it was.                                                          *)
AskInv ==
    /\ \A l \in Loads : pc[l] = "acked" => acked = endpoint
    /\ cur["json"] \in Mismatched => acked = cur["json"]
    /\ UnacknowledgedNeverLoaded

(* A layout is kept under the graph it arranges, everywhere.               *)
LayoutInv ==
    /\ \A s \in Saves : IF spc[s] = "idle" THEN at[s] = None ELSE at[s] \in Graphs
    /\ DrawnIsCurrent
    /\ latest # None => at[latest] = Key
    /\ \A g \in Graphs : /\ cached[g] # Automatic => at[cached[g]] = g
                         /\ stored[g] # Automatic => at[stored[g]] = g
    /\ \A g \in Endpoints : server[g] # Automatic => at[server[g]] = g

SentInv ==
    /\ SavesGoHome
    /\ \A s \in Saves : spc[s] \in InFlight => to[s] \in Endpoints
    /\ \A s \in Saves : spc[s] = "landed" => server[to[s]] = s

(* Saves are taken in order, and one under way is the only one that is.    *)
Over == {"idle"} \cup Ended
Open == {"queued"} \cup InFlight

ChainInv ==
    /\ \A r, s \in Saves : r < s /\ spc[r] = "idle" => spc[s] = "idle"
    /\ \A r, s \in Saves : r < s /\ spc[r] \in Open => spc[s] \in {"idle", "queued"}
    /\ \A s \in Saves : spc[s] = "queued" /\ prev[s] = None =>
          \A r \in Saves : r < s => spc[r] \in Ended
    /\ \A s \in Saves : spc[s] = "queued" /\ prev[s] # None =>
          prev[s] < s /\ \A r \in Saves : prev[s] < r /\ r < s => spc[r] \in Ended
    /\ tail = None => \A r \in Saves : spc[r] \in Over
    /\ tail # None => spc[tail] # "idle" /\ \A r \in Saves : tail < r => spc[r] = "idle"

Inv == /\ TypeOK /\ RequestInv /\ SessionInv /\ AskInv /\ LayoutInv /\ SentInv /\ ChainInv
       /\ SavedStands

-----------------------------------------------------------------------------
LEMMA Constants ==
    /\ Mismatched \subseteq Endpoints /\ ~(File \in Endpoints) /\ ~(None \in Endpoints)
    /\ None # File
    /\ MaxMoves \in Nat /\ ~(None \in Saves) /\ ~(None \in Loads) /\ ~(Automatic \in Saves)
    /\ Saves \subseteq Nat /\ Loads \subseteq Nat
    /\ ~(None \in [e : Endpoints, t : Endpoints \cup {None}])
<1>1. /\ MaxMoves \in Nat /\ MaxSaves \in Nat /\ MaxLoads \in Nat
      /\ Mismatched \subseteq Endpoints /\ ~(File \in Endpoints) /\ ~(None \in Endpoints)
      /\ None # File
  BY StoreAssumption
<1>2. ~(None \in Nat) /\ ~(None \in [e : Endpoints, t : Endpoints \cup {None}])
  BY StoreAssumption, Zenon
<1>3. Saves \subseteq Nat /\ Loads \subseteq Nat
  BY <1>1 DEF Saves, Loads
<1>4. ~(Automatic \in Saves)
  BY DEF Saves, Automatic
<1> QED
  BY <1>1, <1>2, <1>3, <1>4

LEMMA MoveBounded == ASSUME SaveTypes, Move PROVE moves' \in 0..MaxMoves
BY Constants DEF SaveTypes, Move

(* A refused credential is given up in memory and in storage alike.        *)
LEMMA Discarded ==
    ASSUME SourceTypes, SessionInv, DiscardToken
    PROVE  /\ requiresToken' = TRUE /\ token' = None
           /\ session' \in [e : Endpoints, t : Endpoints \cup {None}] \cup {None}
           /\ session' = IF endpoint = None THEN None ELSE [e |-> endpoint, t |-> None]
BY DEF SourceTypes, SessionInv, DiscardToken

(* When a save's turn comes, every save before it has ended.               *)
LEMMA ReadyAlone ==
    ASSUME TypeOK, ChainInv, NEW s \in Saves, SaveReady(s)
    PROVE  \A r \in Saves : r < s => spc[r] \in Ended
<1> SUFFICES ASSUME NEW r \in Saves, r < s PROVE spc[r] \in Ended
  OBVIOUS
<1>1. spc[s] = "queued" /\ spc[r] # "idle" /\ s \in Nat /\ r \in Nat
  BY Constants DEF SaveReady, ChainInv
<1>2. CASE prev[s] = None
  BY <1>1, <1>2 DEF ChainInv
<1>3. CASE prev[s] # None
  <2>1. prev[s] \in Saves /\ spc[prev[s]] \in Ended /\ prev[s] \in Nat
    BY <1>3, Constants DEF SaveReady, TypeOK, SaveTypes
  <2>2. CASE r < prev[s]
    BY <1>1, <2>1, <2>2 DEF ChainInv, TypeOK, SaveTypes, Open, Ended, InFlight
  <2>3. CASE prev[s] < r
    BY <1>1, <1>3, <2>3 DEF ChainInv
  <2>4. CASE r = prev[s]
    BY <2>1, <2>4
  <2> QED
    BY <1>1, <2>1, <2>2, <2>3, <2>4
<1> QED
  BY <1>2, <1>3

(* At most one save is in flight.                                          *)
LEMMA OneInFlight ==
    ASSUME ChainInv, NEW s \in Saves, spc[s] \in InFlight
    PROVE  \A r \in Saves : r # s => spc[r] \notin InFlight
<1> SUFFICES ASSUME NEW r \in Saves, r # s, spc[r] \in InFlight PROVE FALSE
  OBVIOUS
<1>1. r \in Nat /\ s \in Nat
  BY Constants
<1>2. r < s \/ s < r
  BY <1>1
<1> QED
  BY <1>2 DEF ChainInv, Open, InFlight

(* An operation that leaves the saves alone, or the source and the loads,  *)
(* disturbs nothing that is said of them.                                  *)
LEMMA SavesUntouched ==
    ASSUME Inv, UNCHANGED <<tail, spc, at, prev, to, keptVars>>
    PROVE  SentInv' /\ ChainInv' /\ SavedStands'
BY DEF Inv, SentInv, SavesGoHome, ChainInv, SavedStands, keptVars

LEMMA LoadsUntouched ==
    ASSUME Inv, UNCHANGED LoadsRest
    PROVE  SourceTypes' /\ LoadTypes' /\ RequestInv' /\ SessionInv' /\ AskInv'
BY DEF Inv, TypeOK, LoadsRest, sourceVars, fetchVars, loadVars, ackVars,
   SourceTypes, LoadTypes, RequestInv, SessionInv, AskInv,
   UnacknowledgedNeverLoaded

-----------------------------------------------------------------------------
(* Every operation keeps the invariant: the switches of the tab, the steps *)
(* of a load, and those of a save.                                         *)
LEMMA SetSessionKeeps ==
    ASSUME Inv, NEW e \in Endpoints, NEW t \in {e, None}, SetSession(e, t)
    PROVE  Inv'
<1>m. moves' \in 0..MaxMoves
  BY MoveBounded DEF Inv, TypeOK, SetSession
<1>1. SourceTypes'
  BY Constants DEF Inv, TypeOK, SourceTypes, SetSession, ClearGraph
<1>2. LoadTypes'
  <2>0. LoadTypes /\ UNCHANGED <<page, lreq, isLoading>>
    BY DEF Inv, TypeOK, SetSession
  <2>1. CASE file \/ endpoint # e
    <3>1. ClearGraph
      BY <2>1 DEF SetSession
    <3>2. data' \in [Kinds -> Endpoints \cup {None}] /\ err' \in [Kinds -> {"none", "401", "failed"}]
          /\ cur' \in [Kinds -> Endpoints \cup {None}]
      BY <3>1 DEF ClearGraph
    <3>3. pc' \in [Loads -> {"idle", "done"} \cup Waiting \cup Ready]
      BY <2>0, <3>1 DEF ClearGraph, LoadTypes, Ready
    <3>4. asked' = FALSE /\ acked' = None /\ waiter' = None /\ requiresToken' = FALSE
      BY <3>1 DEF ClearGraph
    <3> QED
      BY <2>0, <3>2, <3>3, <3>4 DEF LoadTypes
  <2>2. CASE ~(file \/ endpoint # e)
    <3>1. UNCHANGED <<fetchVars, pc, ackVars, requiresToken>>
      BY <2>2 DEF SetSession
    <3> QED
      BY <2>0, <3>1 DEF LoadTypes, fetchVars, ackVars
  <2> QED
    BY <2>1, <2>2
<1>3. SaveTypes'
  BY Constants, <1>m DEF Inv, TypeOK, SaveTypes, SetSession, ClearGraph,
     shownVars, keptVars, Graphs, Layouts, InFlight, Ended
<1>4. RequestInv'
  BY Constants DEF Inv, TypeOK, SourceTypes, LoadTypes, SetSession, ClearGraph,
     fetchVars, RequestInv, Kinds
<1>5. SessionInv'
  BY Constants DEF Inv, TypeOK, SourceTypes, SetSession, ClearGraph,
     SessionInv, RequestInv
<1>6. AskInv'
  BY Constants DEF Inv, TypeOK, SourceTypes, LoadTypes, SetSession, Move,
     Quiet, ClearGraph, fetchVars, ackVars, AskInv, UnacknowledgedNeverLoaded,
     RequestInv, Kinds, Ready
<1>7. LayoutInv'
  BY Constants DEF Inv, TypeOK, SourceTypes, LoadTypes, SaveTypes, SetSession,
     ClearGraph, fetchVars, shownVars, keptVars, Kinds, Graphs, Layouts,
     LayoutInv, DrawnIsCurrent, Key, RequestInv
<1>8. SentInv' /\ ChainInv' /\ SavedStands'
  BY SavesUntouched DEF SetSession
<1> QED
  BY <1>1, <1>2, <1>3, <1>4, <1>5, <1>6, <1>7, <1>8 DEF Inv, TypeOK

LEMMA OpenGraphFileKeeps ==
    ASSUME Inv, NEW fits \in BOOLEAN, OpenGraphFile(fits)
    PROVE  Inv'
<1>m. moves' \in 0..MaxMoves
  BY MoveBounded DEF Inv, TypeOK, OpenGraphFile
<1>1. SourceTypes'
  BY Constants DEF Inv, TypeOK, SourceTypes, OpenGraphFile, ClearGraph
<1>2. LoadTypes'
  BY Constants DEF Inv, TypeOK, SourceTypes, LoadTypes, OpenGraphFile,
     ClearGraph, Kinds, Waiting, Ready
<1>3. SaveTypes'
  BY Constants, <1>m DEF Inv, TypeOK, SaveTypes, OpenGraphFile, ClearGraph,
     keptVars, Graphs, Layouts, InFlight, Ended
<1>4. RequestInv'
  BY Constants DEF Inv, TypeOK, SourceTypes, LoadTypes, OpenGraphFile,
     ClearGraph, RequestInv, Kinds
<1>5. SessionInv'
  BY Constants DEF Inv, TypeOK, SourceTypes, OpenGraphFile, ClearGraph,
     SessionInv, RequestInv
<1>6. AskInv'
  BY Constants DEF Inv, TypeOK, SourceTypes, LoadTypes, OpenGraphFile, Move,
     Quiet, ClearGraph, AskInv, UnacknowledgedNeverLoaded, RequestInv, Kinds,
     Ready
<1>7. LayoutInv'
  BY Constants DEF Inv, TypeOK, SourceTypes, LoadTypes, SaveTypes,
     OpenGraphFile, ClearGraph, keptVars, Kinds, Graphs, Layouts, LayoutInv,
     DrawnIsCurrent, Key, RequestInv
<1>8. SentInv' /\ ChainInv' /\ SavedStands'
  BY SavesUntouched DEF OpenGraphFile
<1> QED
  BY <1>1, <1>2, <1>3, <1>4, <1>5, <1>6, <1>7, <1>8 DEF Inv, TypeOK

LEMMA CloseGraphFileKeeps == ASSUME Inv, CloseGraphFile PROVE Inv'
<1>m. moves' \in 0..MaxMoves
  BY MoveBounded DEF Inv, TypeOK, CloseGraphFile
<1>1. SourceTypes'
  BY Constants DEF Inv, TypeOK, SourceTypes, CloseGraphFile, ClearGraph
<1>2. LoadTypes'
  BY Constants DEF Inv, TypeOK, SourceTypes, LoadTypes, CloseGraphFile,
     ClearGraph, Kinds, Waiting, Ready
<1>3. SaveTypes'
  BY Constants, <1>m DEF Inv, TypeOK, SaveTypes, CloseGraphFile, ClearGraph,
     keptVars, Graphs, Layouts, InFlight, Ended
<1>4. RequestInv'
  BY Constants DEF Inv, TypeOK, SourceTypes, LoadTypes, CloseGraphFile,
     ClearGraph, RequestInv, Kinds
<1>5. SessionInv'
  BY Constants DEF Inv, TypeOK, SourceTypes, CloseGraphFile, ClearGraph,
     SessionInv, RequestInv
<1>6. AskInv'
  BY Constants DEF Inv, TypeOK, SourceTypes, LoadTypes, CloseGraphFile, Move,
     Quiet, ClearGraph, AskInv, UnacknowledgedNeverLoaded, RequestInv, Kinds,
     Ready
<1>7. LayoutInv'
  BY Constants DEF Inv, TypeOK, SourceTypes, LoadTypes, SaveTypes,
     CloseGraphFile, ClearGraph, keptVars, Kinds, Graphs, Layouts, LayoutInv,
     DrawnIsCurrent, Key, RequestInv
<1>8. SentInv' /\ ChainInv' /\ SavedStands'
  BY SavesUntouched DEF CloseGraphFile
<1> QED
  BY <1>1, <1>2, <1>3, <1>4, <1>5, <1>6, <1>7, <1>8 DEF Inv, TypeOK

LEMMA ReloadKeeps ==
    ASSUME Inv, NEW lands \in BOOLEAN, Reload(lands)
    PROVE  Inv'
<1>m. moves' \in 0..MaxMoves
  BY MoveBounded DEF Inv, TypeOK, Reload
<1>k. Key' \in {None, endpoint', File}
  BY DEF Key
<1>s. \A e \in Endpoints : server'[e] # server[e] =>
         \E s \in Saves : spc[s] = "posting" /\ to[s] = e /\ at[s] = e /\ server'[e] = s
  <2> SUFFICES ASSUME NEW e \in Endpoints, server'[e] # server[e]
               PROVE  \E s \in Saves : spc[s] = "posting" /\ to[s] = e /\ at[s] = e /\ server'[e] = s
    OBVIOUS
  <2>1. /\ \E s \in Saves : spc[s] = "posting" /\ to[s] = e
        /\ server'[e] = CHOOSE s \in Saves : spc[s] = "posting" /\ to[s] = e
    BY DEF Inv, TypeOK, SaveTypes, Reload
  <2>2. server'[e] \in Saves /\ spc[server'[e]] = "posting" /\ to[server'[e]] = e
    BY <2>1
  <2>3. at[server'[e]] = e
    BY <2>2, Constants DEF Inv, SentInv, SavesGoHome
  <2> QED
    BY <2>2, <2>3
<1>1. SourceTypes'
  BY Constants DEF Inv, TypeOK, SourceTypes, Reload
<1>2. LoadTypes'
  BY Constants DEF Inv, TypeOK, SourceTypes, LoadTypes, Reload, Kinds, Waiting,
     Ready
<1>3. SaveTypes'
  BY Constants, <1>m DEF Inv, TypeOK, SaveTypes, Reload, Graphs, Layouts,
     InFlight, Ended
<1>4. RequestInv'
  BY Constants DEF Inv, TypeOK, SourceTypes, LoadTypes, Reload, RequestInv,
     Kinds
<1>5. SessionInv'
  BY Constants DEF Inv, TypeOK, SourceTypes, Reload, SessionInv, RequestInv
<1>6. AskInv'
  BY Constants DEF Inv, TypeOK, SourceTypes, LoadTypes, Reload, Move, AskInv,
     UnacknowledgedNeverLoaded, RequestInv, Kinds, Ready
<1>7. LayoutInv'
  <2>1. data' = [k \in Kinds |-> None] /\ latest' = None /\ cached' = stored /\ stored' = stored /\ at' = at
    BY DEF Reload
  <2>2. \A s \in Saves : IF spc'[s] = "idle" THEN at'[s] = None ELSE at'[s] \in Graphs
    BY DEF Inv, LayoutInv, TypeOK, SaveTypes, Reload, InFlight
  <2>3. \A g \in Graphs : stored[g] # Automatic => at[stored[g]] = g
    BY DEF Inv, LayoutInv
  <2>4. \A g \in Endpoints : server'[g] # Automatic => at'[server'[g]] = g
    BY <1>s, <2>1 DEF Inv, LayoutInv
  <2>5. layout' # Automatic => at'[layout'] = Key'
    <3>1. layout' # Automatic => file' /\ layout' = stored[File]
      BY DEF Reload
    <3> QED
      BY <3>1, <2>1, <2>3 DEF Key, Graphs
  <2>6. data'["json"] = None
    BY <2>1 DEF Kinds
  <2> QED
    BY <2>1, <2>2, <2>3, <2>4, <2>5, <2>6 DEF LayoutInv, DrawnIsCurrent
<1>8. SentInv'
  BY Constants DEF Inv, TypeOK, SaveTypes, Reload, SentInv, SavesGoHome,
     InFlight
<1>9. ChainInv'
  BY DEF Inv, TypeOK, SaveTypes, Reload, ChainInv, Over, Open, Ended, InFlight
<1>10. SavedStands'
  <2> SUFFICES ASSUME NEW q \in Saves, spc'[q] = "saved",
                      \A r \in Saves : r > q /\ at'[r] = at'[q] => spc'[r] \in {"queued", "skipped"}
               PROVE  q = stored'[at'[q]] \/ (at'[q] \in Endpoints /\ q = server'[at'[q]])
    BY DEF SavedStands
  <2>1. spc[q] = "saved"
    BY DEF Inv, TypeOK, SaveTypes, Reload
  <2>2. \A r \in Saves : r > q /\ at[r] = at[q] => spc[r] \in {"queued", "skipped"}
    BY DEF Inv, TypeOK, SaveTypes, Reload, InFlight
  <2>3. q = stored[at[q]] \/ (at[q] \in Endpoints /\ q = server[at[q]])
    BY <2>1, <2>2 DEF Inv, SavedStands
  <2>4. at[q] \in Endpoints => server'[at[q]] = server[at[q]]
    <3> SUFFICES ASSUME at[q] \in Endpoints, NEW s \in Saves, spc[s] = "posting", at[s] = at[q]
                 PROVE  FALSE
      BY <1>s
    <3>1. q \in Nat /\ s \in Nat /\ s # q
      BY Constants, <2>1
    <3>2. CASE s > q
      BY <3>2, <2>2
    <3>3. CASE s < q
      BY <3>3, <2>1 DEF Inv, ChainInv, Open, InFlight
    <3> QED
      BY <3>1, <3>2, <3>3
  <2> QED
    BY <2>3, <2>4 DEF Reload
<1> QED
  BY <1>1, <1>2, <1>3, <1>4, <1>5, <1>6, <1>7, <1>8, <1>9, <1>10 DEF Inv,
     TypeOK

LEMMA MountPageKeeps == ASSUME Inv, NEW l \in Loads, MountPage(l) PROVE Inv'
<1>1. SourceTypes'
  BY Constants DEF Inv, TypeOK, SourceTypes, MountPage, BeginLoad, Execute
<1>2. LoadTypes'
  BY Constants DEF Inv, TypeOK, SourceTypes, LoadTypes, MountPage, BeginLoad,
     Execute, ackVars, Kinds, Waiting, Ready
<1>3. SaveTypes'
  BY Constants DEF Inv, TypeOK, SaveTypes, MountPage, BeginLoad, Execute,
     saveVars, keptVars, Graphs, Layouts, InFlight, Ended
<1>4. RequestInv'
  BY Constants DEF Inv, TypeOK, SourceTypes, LoadTypes, MountPage, BeginLoad,
     Execute, RequestInv, Kinds
<1>5. SessionInv'
  BY Constants DEF Inv, TypeOK, SourceTypes, MountPage, BeginLoad, SessionInv,
     RequestInv
<1>6. AskInv'
  BY Constants DEF Inv, TypeOK, SourceTypes, LoadTypes, MountPage, BeginLoad,
     Execute, ackVars, AskInv, UnacknowledgedNeverLoaded, RequestInv, Kinds,
     Ready
<1>7. LayoutInv'
  BY Constants DEF Inv, TypeOK, SourceTypes, LoadTypes, SaveTypes, MountPage,
     BeginLoad, Execute, saveVars, keptVars, Kinds, Graphs, Layouts, LayoutInv,
     DrawnIsCurrent, Key, RequestInv
<1>8. SentInv' /\ ChainInv' /\ SavedStands'
  BY SavesUntouched DEF MountPage, BeginLoad, saveVars
<1> QED
  BY <1>1, <1>2, <1>3, <1>4, <1>5, <1>6, <1>7, <1>8 DEF Inv, TypeOK

LEMMA RefreshKeeps == ASSUME Inv, NEW l \in Loads, Refresh(l) PROVE Inv'
<1>1. SourceTypes'
  BY Constants DEF Inv, TypeOK, SourceTypes, Refresh, BeginLoad, Execute
<1>2. LoadTypes'
  BY Constants DEF Inv, TypeOK, SourceTypes, LoadTypes, Refresh, BeginLoad,
     Execute, ackVars, Kinds, Waiting, Ready
<1>3. SaveTypes'
  BY Constants DEF Inv, TypeOK, SaveTypes, Refresh, BeginLoad, Execute,
     saveVars, keptVars, Graphs, Layouts, InFlight, Ended
<1>4. RequestInv'
  BY Constants DEF Inv, TypeOK, SourceTypes, LoadTypes, Refresh, BeginLoad,
     Execute, RequestInv, Kinds
<1>5. SessionInv'
  BY Constants DEF Inv, TypeOK, SourceTypes, Refresh, BeginLoad, SessionInv,
     RequestInv
<1>6. AskInv'
  BY Constants DEF Inv, TypeOK, SourceTypes, LoadTypes, Refresh, BeginLoad,
     Execute, ackVars, AskInv, UnacknowledgedNeverLoaded, RequestInv, Kinds,
     Ready
<1>7. LayoutInv'
  BY Constants DEF Inv, TypeOK, SourceTypes, LoadTypes, SaveTypes, Refresh,
     BeginLoad, Execute, saveVars, keptVars, Kinds, Graphs, Layouts, LayoutInv,
     DrawnIsCurrent, Key, RequestInv
<1>8. SentInv' /\ ChainInv' /\ SavedStands'
  BY SavesUntouched DEF Refresh, BeginLoad, saveVars
<1> QED
  BY <1>1, <1>2, <1>3, <1>4, <1>5, <1>6, <1>7, <1>8 DEF Inv, TypeOK

LEMMA ForgottenKeeps == ASSUME Inv, NEW l \in Loads, Forgotten(l) PROVE Inv'
<1>1. SourceTypes'
  BY Constants DEF Inv, TypeOK, SourceTypes, Forgotten, ReadOf, sourceVars
<1>2. LoadTypes'
  BY Constants DEF Inv, TypeOK, SourceTypes, LoadTypes, Forgotten, ReadOf,
     fetchVars, ackVars, Kinds, Waiting, Ready
<1>3. SaveTypes'
  BY Constants DEF Inv, TypeOK, SaveTypes, Forgotten, ReadOf, shownVars,
     saveVars, keptVars, Graphs, Layouts, InFlight, Ended
<1>4. RequestInv'
  BY Constants DEF Inv, TypeOK, SourceTypes, LoadTypes, Forgotten, ReadOf,
     sourceVars, fetchVars, RequestInv, Kinds
<1>5. SessionInv'
  BY Constants DEF Inv, TypeOK, SourceTypes, Forgotten, sourceVars, SessionInv,
     RequestInv
<1>6. AskInv'
  BY Constants DEF Inv, TypeOK, SourceTypes, LoadTypes, Forgotten, ReadOf,
     sourceVars, fetchVars, ackVars, AskInv, UnacknowledgedNeverLoaded,
     RequestInv, Kinds, Ready
<1>7. LayoutInv'
  BY Constants DEF Inv, TypeOK, SourceTypes, LoadTypes, SaveTypes, Forgotten,
     ReadOf, sourceVars, fetchVars, shownVars, saveVars, keptVars, Kinds,
     Graphs, Layouts, LayoutInv, DrawnIsCurrent, Key, RequestInv
<1>8. SentInv' /\ ChainInv' /\ SavedStands'
  BY SavesUntouched DEF Forgotten, saveVars
<1> QED
  BY <1>1, <1>2, <1>3, <1>4, <1>5, <1>6, <1>7, <1>8 DEF Inv, TypeOK

LEMMA InspectorAnsweredKeeps ==
    ASSUME Inv, NEW l \in Loads, InspectorAnswered(l)
    PROVE  Inv'
<1>1. SourceTypes'
  BY Constants DEF Inv, TypeOK, SourceTypes, InspectorAnswered, Execute, Rest
<1>2. LoadTypes'
  <2>1. endpoint \in Endpoints
    BY Constants DEF Inv, RequestInv, TypeOK, SourceTypes, InspectorAnswered,
       Kinds
  <2>2. CASE data["info"] \notin Mismatched \/ acked = endpoint
    BY <2>1, <2>2 DEF Inv, TypeOK, InspectorAnswered, Execute, Rest, LoadTypes,
       Kinds, Waiting, Ready, fetchVars, ackVars, loadVars
  <2>3. CASE ~(data["info"] \notin Mismatched \/ acked = endpoint)
    BY <2>3 DEF Inv, TypeOK, InspectorAnswered, Rest, LoadTypes, Kinds,
       Waiting, Ready, fetchVars, ackVars, loadVars
  <2> QED
    BY <2>2, <2>3
<1>3. SaveTypes'
  BY Constants DEF Inv, TypeOK, SaveTypes, InspectorAnswered, Execute,
     shownVars, saveVars, keptVars, Rest, Graphs, Layouts, InFlight, Ended
<1>4. RequestInv'
  BY Constants DEF Inv, TypeOK, SourceTypes, LoadTypes, InspectorAnswered,
     Execute, Rest, RequestInv, Kinds
<1>5. SessionInv'
  BY Constants DEF Inv, TypeOK, SourceTypes, InspectorAnswered, Rest,
     SessionInv, RequestInv
<1>6. AskInv'
  BY Constants DEF Inv, TypeOK, SourceTypes, LoadTypes, InspectorAnswered,
     Execute, Rest, AskInv, UnacknowledgedNeverLoaded, RequestInv, Kinds, Ready
<1>7. LayoutInv'
  BY Constants DEF Inv, TypeOK, SourceTypes, LoadTypes, SaveTypes,
     InspectorAnswered, Execute, shownVars, saveVars, keptVars, Rest, Kinds,
     Graphs, Layouts, LayoutInv, DrawnIsCurrent, Key, RequestInv
<1>8. SentInv' /\ ChainInv' /\ SavedStands'
  BY SavesUntouched DEF InspectorAnswered, saveVars, Rest
<1> QED
  BY <1>1, <1>2, <1>3, <1>4, <1>5, <1>6, <1>7, <1>8 DEF Inv, TypeOK

LEMMA InspectorRefusedKeeps ==
    ASSUME Inv, NEW l \in Loads, InspectorRefused(l)
    PROVE  Inv'
<1>d. DiscardToken => /\ requiresToken' = TRUE /\ token' = None
                      /\ session' \in [e : Endpoints, t : Endpoints \cup {None}] \cup {None}
                      /\ session' = IF endpoint = None THEN None ELSE [e |-> endpoint, t |-> None]
  BY Discarded DEF Inv, TypeOK
<1>1. SourceTypes'
  BY Constants, <1>d DEF Inv, TypeOK, SourceTypes, InspectorRefused, EndLoad,
     Rest
<1>2. LoadTypes'
  BY Constants, <1>d DEF Inv, TypeOK, SourceTypes, LoadTypes, InspectorRefused,
     EndLoad, fetchVars, ackVars, Rest, Kinds, Waiting, Ready
<1>3. SaveTypes'
  BY Constants DEF Inv, TypeOK, SaveTypes, InspectorRefused, EndLoad,
     shownVars, saveVars, keptVars, Rest, Graphs, Layouts, InFlight, Ended
<1>4. RequestInv'
  BY Constants, <1>d DEF Inv, TypeOK, SourceTypes, LoadTypes, InspectorRefused,
     EndLoad, fetchVars, Rest, RequestInv, Kinds
<1>5. SessionInv'
  BY Constants, <1>d DEF Inv, TypeOK, SourceTypes, InspectorRefused, Rest,
     SessionInv, RequestInv
<1>6. AskInv'
  BY Constants, <1>d DEF Inv, TypeOK, SourceTypes, LoadTypes, InspectorRefused,
     EndLoad, fetchVars, ackVars, Rest, AskInv, UnacknowledgedNeverLoaded,
     RequestInv, Kinds, Ready
<1>7. LayoutInv'
  BY Constants, <1>d DEF Inv, TypeOK, SourceTypes, LoadTypes, SaveTypes,
     InspectorRefused, EndLoad, fetchVars, shownVars, saveVars, keptVars, Rest,
     Kinds, Graphs, Layouts, LayoutInv, DrawnIsCurrent, Key, RequestInv
<1>8. SentInv' /\ ChainInv' /\ SavedStands'
  BY SavesUntouched DEF InspectorRefused, saveVars, Rest
<1> QED
  BY <1>1, <1>2, <1>3, <1>4, <1>5, <1>6, <1>7, <1>8 DEF Inv, TypeOK

LEMMA InspectorMissingKeeps ==
    ASSUME Inv, NEW l \in Loads, InspectorMissing(l)
    PROVE  Inv'
<1>1. SourceTypes'
  BY Constants DEF Inv, TypeOK, SourceTypes, InspectorMissing, Execute, Rest
<1>2. LoadTypes'
  BY Constants DEF Inv, TypeOK, SourceTypes, LoadTypes, InspectorMissing,
     Execute, ackVars, Rest, Kinds, Waiting, Ready
<1>3. SaveTypes'
  BY Constants DEF Inv, TypeOK, SaveTypes, InspectorMissing, Execute,
     shownVars, saveVars, keptVars, Rest, Graphs, Layouts, InFlight, Ended
<1>4. RequestInv'
  BY Constants DEF Inv, TypeOK, SourceTypes, LoadTypes, InspectorMissing,
     Execute, Rest, RequestInv, Kinds
<1>5. SessionInv'
  BY Constants DEF Inv, TypeOK, SourceTypes, InspectorMissing, Rest,
     SessionInv, RequestInv
<1>6. AskInv'
  BY Constants DEF Inv, TypeOK, SourceTypes, LoadTypes, InspectorMissing,
     Execute, ackVars, Rest, AskInv, UnacknowledgedNeverLoaded, RequestInv,
     Kinds, Ready
<1>7. LayoutInv'
  BY Constants DEF Inv, TypeOK, SourceTypes, LoadTypes, SaveTypes,
     InspectorMissing, Execute, shownVars, saveVars, keptVars, Rest, Kinds,
     Graphs, Layouts, LayoutInv, DrawnIsCurrent, Key, RequestInv
<1>8. SentInv' /\ ChainInv' /\ SavedStands'
  BY SavesUntouched DEF InspectorMissing, saveVars, Rest
<1> QED
  BY <1>1, <1>2, <1>3, <1>4, <1>5, <1>6, <1>7, <1>8 DEF Inv, TypeOK

LEMMA LegacyAnsweredKeeps ==
    ASSUME Inv, NEW l \in Loads, LegacyAnswered(l)
    PROVE  Inv'
<1>1. SourceTypes'
  BY Constants DEF Inv, TypeOK, SourceTypes, LegacyAnswered, EndLoad, Rest
<1>2. LoadTypes'
  BY Constants DEF Inv, TypeOK, SourceTypes, LoadTypes, LegacyAnswered,
     EndLoad, fetchVars, ackVars, Rest, Kinds, Waiting, Ready
<1>3. SaveTypes'
  BY Constants DEF Inv, TypeOK, SaveTypes, LegacyAnswered, EndLoad, shownVars,
     saveVars, keptVars, Rest, Graphs, Layouts, InFlight, Ended
<1>4. RequestInv'
  BY Constants DEF Inv, TypeOK, SourceTypes, LoadTypes, LegacyAnswered,
     EndLoad, fetchVars, Rest, RequestInv, Kinds
<1>5. SessionInv'
  BY Constants DEF Inv, TypeOK, SourceTypes, LegacyAnswered, Rest, SessionInv,
     RequestInv
<1>6. AskInv'
  BY Constants DEF Inv, TypeOK, SourceTypes, LoadTypes, LegacyAnswered,
     EndLoad, fetchVars, ackVars, Rest, AskInv, UnacknowledgedNeverLoaded,
     RequestInv, Kinds, Ready
<1>7. LayoutInv'
  BY Constants DEF Inv, TypeOK, SourceTypes, LoadTypes, SaveTypes,
     LegacyAnswered, EndLoad, fetchVars, shownVars, saveVars, keptVars, Rest,
     Kinds, Graphs, Layouts, LayoutInv, DrawnIsCurrent, Key, RequestInv
<1>8. SentInv' /\ ChainInv' /\ SavedStands'
  BY SavesUntouched DEF LegacyAnswered, saveVars, Rest
<1> QED
  BY <1>1, <1>2, <1>3, <1>4, <1>5, <1>6, <1>7, <1>8 DEF Inv, TypeOK

LEMMA AcknowledgeKeeps == ASSUME Inv, Acknowledge PROVE Inv'
<1>1. SourceTypes'
  BY Constants DEF Inv, TypeOK, SourceTypes, Acknowledge, Rest
<1>2. LoadTypes'
  BY Constants DEF Inv, TypeOK, SourceTypes, LoadTypes, Acknowledge, fetchVars,
     Rest, Kinds, Waiting, Ready
<1>3. SaveTypes'
  BY Constants DEF Inv, TypeOK, SaveTypes, Acknowledge, shownVars, saveVars,
     keptVars, Rest, Graphs, Layouts, InFlight, Ended
<1>4. RequestInv'
  BY Constants DEF Inv, TypeOK, SourceTypes, LoadTypes, Acknowledge, fetchVars,
     Rest, RequestInv, Kinds
<1>5. SessionInv'
  BY Constants DEF Inv, TypeOK, SourceTypes, Acknowledge, Rest, SessionInv,
     RequestInv
<1>6. AskInv'
  BY Constants DEF Inv, TypeOK, SourceTypes, LoadTypes, Acknowledge, fetchVars,
     Rest, AskInv, UnacknowledgedNeverLoaded, RequestInv, Kinds, Ready
<1>7. LayoutInv'
  BY Constants DEF Inv, TypeOK, SourceTypes, LoadTypes, SaveTypes, Acknowledge,
     fetchVars, shownVars, saveVars, keptVars, Rest, Kinds, Graphs, Layouts,
     LayoutInv, DrawnIsCurrent, Key, RequestInv
<1>8. SentInv' /\ ChainInv' /\ SavedStands'
  BY SavesUntouched DEF Acknowledge, saveVars, Rest
<1> QED
  BY <1>1, <1>2, <1>3, <1>4, <1>5, <1>6, <1>7, <1>8 DEF Inv, TypeOK

LEMMA AcknowledgedKeeps ==
    ASSUME Inv, NEW l \in Loads, Acknowledged(l)
    PROVE  Inv'
<1>1. SourceTypes'
  BY Constants DEF Inv, TypeOK, SourceTypes, Acknowledged, Execute, Rest
<1>2. LoadTypes'
  BY Constants DEF Inv, TypeOK, SourceTypes, LoadTypes, Acknowledged, Execute,
     ackVars, Rest, Kinds, Waiting, Ready
<1>3. SaveTypes'
  BY Constants DEF Inv, TypeOK, SaveTypes, Acknowledged, Execute, shownVars,
     saveVars, keptVars, Rest, Graphs, Layouts, InFlight, Ended
<1>4. RequestInv'
  BY Constants DEF Inv, TypeOK, SourceTypes, LoadTypes, Acknowledged, Execute,
     Rest, RequestInv, Kinds
<1>5. SessionInv'
  BY Constants DEF Inv, TypeOK, SourceTypes, Acknowledged, Rest, SessionInv,
     RequestInv
<1>6. AskInv'
  BY Constants DEF Inv, TypeOK, SourceTypes, LoadTypes, Acknowledged, Execute,
     ackVars, Rest, AskInv, UnacknowledgedNeverLoaded, RequestInv, Kinds, Ready
<1>7. LayoutInv'
  BY Constants DEF Inv, TypeOK, SourceTypes, LoadTypes, SaveTypes,
     Acknowledged, Execute, shownVars, saveVars, keptVars, Rest, Kinds, Graphs,
     Layouts, LayoutInv, DrawnIsCurrent, Key, RequestInv
<1>8. SentInv' /\ ChainInv' /\ SavedStands'
  BY SavesUntouched DEF Acknowledged, saveVars, Rest
<1> QED
  BY <1>1, <1>2, <1>3, <1>4, <1>5, <1>6, <1>7, <1>8 DEF Inv, TypeOK

LEMMA GraphAnsweredKeeps ==
    ASSUME Inv, NEW l \in Loads, GraphAnswered(l)
    PROVE  Inv'
<1>k. Key \in Graphs /\ endpoint \in Endpoints /\ ~file /\ Key = endpoint
  BY Constants DEF Inv, TypeOK, SourceTypes, RequestInv, GraphAnswered, Key,
     Kinds, Graphs
<1>c. KeptInTab \/ ~KeptInTab
  OBVIOUS
<1>1. SourceTypes'
  BY Constants DEF Inv, TypeOK, SourceTypes, GraphAnswered, EndLoad, KeptInTab,
     Rest
<1>2. LoadTypes'
  <2>1. CASE KeptInTab
    BY <2>1 DEF Inv, TypeOK, GraphAnswered, EndLoad, Rest, LoadTypes, Kinds,
       Waiting, Ready, fetchVars, ackVars, loadVars
  <2>2. CASE ~KeptInTab
    BY <2>2, <1>k DEF Inv, TypeOK, GraphAnswered, Rest, LoadTypes, Kinds,
       Waiting, Ready, fetchVars, ackVars, loadVars
  <2> QED
    BY <2>1, <2>2
<1>3. SaveTypes'
  <2>1. layout' \in Layouts
    BY <1>k DEF Inv, TypeOK, SaveTypes, GraphAnswered
  <2> QED
    BY <2>1 DEF Inv, TypeOK, SaveTypes, GraphAnswered, Rest, saveVars, keptVars
<1>4. RequestInv'
  BY Constants DEF Inv, TypeOK, SourceTypes, LoadTypes, GraphAnswered, EndLoad,
     KeptInTab, fetchVars, Rest, RequestInv, Kinds
<1>5. SessionInv'
  BY Constants DEF Inv, TypeOK, SourceTypes, GraphAnswered, KeptInTab, Rest,
     SessionInv, RequestInv
<1>6. AskInv'
  BY Constants DEF Inv, TypeOK, SourceTypes, LoadTypes, GraphAnswered, EndLoad,
     KeptInTab, fetchVars, ackVars, Rest, AskInv, UnacknowledgedNeverLoaded,
     RequestInv, Kinds, Ready
<1>7. LayoutInv'
  BY Constants DEF Inv, TypeOK, SourceTypes, LoadTypes, SaveTypes,
     GraphAnswered, EndLoad, KeptInTab, fetchVars, saveVars, keptVars, Rest,
     Kinds, Graphs, Layouts, LayoutInv, DrawnIsCurrent, Key, RequestInv
<1>8. SentInv' /\ ChainInv' /\ SavedStands'
  BY SavesUntouched DEF GraphAnswered, saveVars, Rest
<1> QED
  BY <1>1, <1>2, <1>3, <1>4, <1>5, <1>6, <1>7, <1>8 DEF Inv, TypeOK

LEMMA GraphFailedKeeps ==
    ASSUME Inv, NEW l \in Loads, GraphFailed(l)
    PROVE  Inv'
<1>d. DiscardToken => /\ requiresToken' = TRUE /\ token' = None
                      /\ session' \in [e : Endpoints, t : Endpoints \cup {None}] \cup {None}
                      /\ session' = IF endpoint = None THEN None ELSE [e |-> endpoint, t |-> None]
  BY Discarded DEF Inv, TypeOK
<1>1. SourceTypes'
  BY Constants, <1>d DEF Inv, TypeOK, SourceTypes, GraphFailed, EndLoad, Rest
<1>2. LoadTypes'
  BY Constants, <1>d DEF Inv, TypeOK, SourceTypes, LoadTypes, GraphFailed,
     EndLoad, fetchVars, ackVars, Rest, Kinds, Waiting, Ready
<1>3. SaveTypes'
  BY Constants DEF Inv, TypeOK, SaveTypes, GraphFailed, EndLoad, shownVars,
     saveVars, keptVars, Rest, Graphs, Layouts, InFlight, Ended
<1>4. RequestInv'
  BY Constants, <1>d DEF Inv, TypeOK, SourceTypes, LoadTypes, GraphFailed,
     EndLoad, fetchVars, Rest, RequestInv, Kinds
<1>5. SessionInv'
  BY Constants, <1>d DEF Inv, TypeOK, SourceTypes, GraphFailed, Rest,
     SessionInv, RequestInv
<1>6. AskInv'
  BY Constants, <1>d DEF Inv, TypeOK, SourceTypes, LoadTypes, GraphFailed,
     EndLoad, fetchVars, ackVars, Rest, AskInv, UnacknowledgedNeverLoaded,
     RequestInv, Kinds, Ready
<1>7. LayoutInv'
  BY Constants, <1>d DEF Inv, TypeOK, SourceTypes, LoadTypes, SaveTypes,
     GraphFailed, EndLoad, fetchVars, shownVars, saveVars, keptVars, Rest,
     Kinds, Graphs, Layouts, LayoutInv, DrawnIsCurrent, Key, RequestInv
<1>8. SentInv' /\ ChainInv' /\ SavedStands'
  BY SavesUntouched DEF GraphFailed, saveVars, Rest
<1> QED
  BY <1>1, <1>2, <1>3, <1>4, <1>5, <1>6, <1>7, <1>8 DEF Inv, TypeOK

LEMMA LayoutAnsweredKeeps ==
    ASSUME Inv, NEW l \in Loads, NEW a \in {"none", "404"} \cup Failures, LayoutAnswered(l, a)
    PROVE  Inv'
<1>d. DiscardToken => /\ requiresToken' = TRUE /\ token' = None
                      /\ session' \in [e : Endpoints, t : Endpoints \cup {None}] \cup {None}
                      /\ session' = IF endpoint = None THEN None ELSE [e |-> endpoint, t |-> None]
  BY Discarded DEF Inv, TypeOK
<1>1. SourceTypes'
  BY Constants, <1>d DEF Inv, TypeOK, SourceTypes, LayoutAnswered, EndLoad,
     Failures, Rest
<1>2. LoadTypes'
  BY Constants, <1>d DEF Inv, TypeOK, SourceTypes, LoadTypes, LayoutAnswered,
     EndLoad, Failures, fetchVars, ackVars, Rest, Kinds, Waiting, Ready
<1>3. SaveTypes'
  <2>1. CASE endpoint # lreq[l]
    BY <2>1 DEF Inv, TypeOK, SaveTypes, LayoutAnswered, Rest, saveVars,
       keptVars
  <2>2. CASE endpoint = lreq[l]
    <3>1. endpoint \in Endpoints
      BY <2>2 DEF Inv, RequestInv, LayoutAnswered
    <3>2. layout' \in Layouts
      BY <2>2, <3>1 DEF Inv, TypeOK, SaveTypes, LayoutAnswered, Graphs, Layouts
    <3> QED
      BY <2>2, <3>2 DEF Inv, TypeOK, SaveTypes, LayoutAnswered, Rest, saveVars,
         keptVars
  <2> QED
    BY <2>1, <2>2
<1>4. RequestInv'
  BY Constants, <1>d DEF Inv, TypeOK, SourceTypes, LoadTypes, LayoutAnswered,
     EndLoad, Failures, fetchVars, Rest, RequestInv, Kinds
<1>5. SessionInv'
  BY Constants, <1>d DEF Inv, TypeOK, SourceTypes, LayoutAnswered, Failures,
     Rest, SessionInv, RequestInv
<1>6. AskInv'
  BY Constants, <1>d DEF Inv, TypeOK, SourceTypes, LoadTypes, LayoutAnswered,
     EndLoad, Failures, fetchVars, ackVars, Rest, AskInv,
     UnacknowledgedNeverLoaded, RequestInv, Kinds, Ready
<1>7. LayoutInv'
  BY Constants, <1>d DEF Inv, TypeOK, SourceTypes, LoadTypes, SaveTypes,
     LayoutAnswered, EndLoad, Failures, fetchVars, saveVars, keptVars, Rest,
     Kinds, Graphs, Layouts, LayoutInv, DrawnIsCurrent, Key, RequestInv
<1>8. SentInv' /\ ChainInv' /\ SavedStands'
  BY SavesUntouched DEF LayoutAnswered, saveVars, Rest
<1> QED
  BY <1>1, <1>2, <1>3, <1>4, <1>5, <1>6, <1>7, <1>8 DEF Inv, TypeOK

LEMMA AnswerKeeps ==
    ASSUME Inv, NEW k \in Kinds, NEW a \in {"none"} \cup Failures, Answer(k, a)
    PROVE  Inv'
<1>1. SourceTypes'
  BY Constants DEF Inv, TypeOK, SourceTypes, Answer, ReadOf, Failures,
     sourceVars
<1>2. LoadTypes'
  BY Constants DEF Inv, TypeOK, SourceTypes, LoadTypes, Answer, ReadOf,
     Failures, ackVars, Kinds, Waiting, Ready
<1>3. SaveTypes'
  BY Constants DEF Inv, TypeOK, SaveTypes, Answer, ReadOf, Failures, shownVars,
     saveVars, keptVars, Graphs, Layouts, InFlight, Ended
<1>4. RequestInv'
  BY Constants DEF Inv, TypeOK, SourceTypes, LoadTypes, Answer, ReadOf,
     Failures, sourceVars, RequestInv, Kinds
<1>5. SessionInv'
  BY Constants DEF Inv, TypeOK, SourceTypes, Answer, Failures, sourceVars,
     SessionInv, RequestInv
<1>6. AskInv'
  BY Constants DEF Inv, TypeOK, SourceTypes, LoadTypes, Answer, ReadOf,
     Failures, sourceVars, ackVars, AskInv, UnacknowledgedNeverLoaded,
     RequestInv, Kinds, Ready
<1>7. LayoutInv'
  BY Constants DEF Inv, TypeOK, SourceTypes, LoadTypes, SaveTypes, Answer,
     ReadOf, Failures, sourceVars, shownVars, saveVars, keptVars, Kinds,
     Graphs, Layouts, LayoutInv, DrawnIsCurrent, Key, RequestInv
<1>8. SentInv' /\ ChainInv' /\ SavedStands'
  BY SavesUntouched DEF Answer, saveVars
<1> QED
  BY <1>1, <1>2, <1>3, <1>4, <1>5, <1>6, <1>7, <1>8 DEF Inv, TypeOK

LEMMA DragKeeps == ASSUME Inv, Drag PROVE Inv'
<1>1. SourceTypes' /\ LoadTypes' /\ RequestInv' /\ SessionInv' /\ AskInv'
  BY LoadsUntouched DEF Drag
<1>2. SaveTypes'
  BY Constants DEF Inv, TypeOK, SaveTypes, Drag, saveVars, keptVars, LoadsRest,
     Graphs, Layouts, InFlight, Ended
<1>3. LayoutInv'
  BY Constants DEF Inv, TypeOK, SourceTypes, LoadTypes, SaveTypes, Drag,
     sourceVars, fetchVars, saveVars, keptVars, LoadsRest, Kinds, Graphs,
     Layouts, LayoutInv, DrawnIsCurrent, Key, RequestInv
<1>4. SentInv' /\ ChainInv' /\ SavedStands'
  BY SavesUntouched DEF Drag, saveVars
<1> QED
  BY <1>1, <1>2, <1>3, <1>4 DEF Inv, TypeOK

LEMMA SaveLayoutKeeps == ASSUME Inv, NEW s \in Saves, SaveLayout(s) PROVE Inv'
<1>k. Key \in Graphs
  BY Constants DEF Inv, TypeOK, SourceTypes, RequestInv, SaveLayout, Shown,
     Key, Kinds, Graphs
<1>1. SourceTypes' /\ LoadTypes' /\ RequestInv' /\ SessionInv' /\ AskInv'
  BY LoadsUntouched DEF SaveLayout
<1>2. SaveTypes'
  BY <1>k DEF Inv, TypeOK, SaveTypes, SaveLayout, LoadsRest, keptVars, Layouts
<1>3. LayoutInv'
  BY Constants DEF Inv, TypeOK, SourceTypes, LoadTypes, SaveTypes, SaveLayout,
     Shown, sourceVars, fetchVars, keptVars, LoadsRest, Kinds, Graphs, Layouts,
     LayoutInv, DrawnIsCurrent, Key, RequestInv
<1>4. SentInv'
  BY DEF Inv, TypeOK, SaveTypes, LayoutInv, SaveLayout, LoadsRest, keptVars,
     SentInv, SavesGoHome, InFlight
<1>5. ChainInv'
  BY Constants DEF Inv, TypeOK, SaveTypes, SaveLayout, ChainInv, Over, Open,
     Ended, InFlight
<1>6. SavedStands'
  <2> SUFFICES ASSUME NEW q \in Saves, spc'[q] = "saved",
                      \A r \in Saves : r > q /\ at'[r] = at'[q] => spc'[r] \in {"queued", "skipped"}
               PROVE  q = stored'[at'[q]] \/ (at'[q] \in Endpoints /\ q = server'[at'[q]])
    BY DEF SavedStands
  <2>1. q # s /\ spc[q] = "saved" /\ at'[q] = at[q]
    BY DEF Inv, TypeOK, SaveTypes, SaveLayout
  <2>2. \A r \in Saves : r > q /\ at[r] = at[q] => spc[r] \in {"queued", "skipped"}
    <3> SUFFICES ASSUME NEW r \in Saves, r > q, at[r] = at[q]
                 PROVE  spc[r] \in {"queued", "skipped"}
      OBVIOUS
    <3>1. r # s
      BY <2>1, Constants DEF Inv, LayoutInv, Graphs, SaveLayout
    <3> QED
      BY <2>1, <3>1 DEF Inv, TypeOK, SaveTypes, SaveLayout
  <2> QED
    BY <2>1, <2>2 DEF Inv, SavedStands, SaveLayout, keptVars
<1> QED
  BY <1>1, <1>2, <1>3, <1>4, <1>5, <1>6 DEF Inv, TypeOK

LEMMA SkipSaveKeeps == ASSUME Inv, NEW s \in Saves, SkipSave(s) PROVE Inv'
<1>r. \A r \in Saves : r < s => spc[r] \in Ended
  BY ReadyAlone DEF Inv, SkipSave
<1>1. SourceTypes' /\ LoadTypes' /\ RequestInv' /\ SessionInv' /\ AskInv'
  BY LoadsUntouched DEF SkipSave
<1>2. SaveTypes'
  BY Constants DEF Inv, TypeOK, SaveTypes, SkipSave, SaveReady, shownVars,
     keptVars, LoadsRest, Graphs, Layouts, InFlight, Ended
<1>3. LayoutInv'
  BY Constants DEF Inv, TypeOK, SourceTypes, LoadTypes, SaveTypes, SkipSave,
     SaveReady, sourceVars, fetchVars, shownVars, keptVars, LoadsRest, Kinds,
     Graphs, Layouts, LayoutInv, DrawnIsCurrent, Key, RequestInv
<1>4. SentInv'
  BY Constants, <1>r DEF Inv, TypeOK, SaveTypes, SkipSave, SaveReady, keptVars,
     LoadsRest, SentInv, SavesGoHome, InFlight
<1>5. ChainInv'
  BY <1>r DEF Inv, TypeOK, SaveTypes, SkipSave, SaveReady, LoadsRest, ChainInv,
     Over, Open, Ended, InFlight
<1>6. SavedStands'
  BY <1>r DEF Inv, TypeOK, SaveTypes, SkipSave, SaveReady, keptVars, LoadsRest,
     SavedStands
<1> QED
  BY <1>1, <1>2, <1>3, <1>4, <1>5, <1>6 DEF Inv, TypeOK

LEMMA PostLayoutKeeps == ASSUME Inv, NEW s \in Saves, PostLayout(s) PROVE Inv'
<1>r. \A r \in Saves : r < s => spc[r] \in Ended
  BY ReadyAlone DEF Inv, PostLayout
<1>k. endpoint \in Endpoints /\ at[s] = endpoint /\ spc[s] = "queued"
  BY Constants DEF Inv, TypeOK, SourceTypes, LayoutInv, Key, KeptInTab,
     PostLayout, SaveReady, Graphs
<1>1. SourceTypes' /\ LoadTypes' /\ RequestInv' /\ SessionInv' /\ AskInv'
  BY LoadsUntouched DEF PostLayout
<1>2. SaveTypes'
  BY <1>k DEF Inv, TypeOK, SaveTypes, PostLayout, LoadsRest, keptVars, InFlight
<1>3. LayoutInv'
  BY Constants DEF Inv, TypeOK, SourceTypes, LoadTypes, SaveTypes, PostLayout,
     SaveReady, KeptInTab, sourceVars, fetchVars, keptVars, LoadsRest, Kinds,
     Graphs, Layouts, LayoutInv, DrawnIsCurrent, Key, RequestInv
<1>4. SentInv'
  BY <1>k DEF Inv, TypeOK, SaveTypes, PostLayout, LoadsRest, keptVars, SentInv,
     SavesGoHome, InFlight, Ended
<1>5. ChainInv'
  BY <1>r DEF Inv, TypeOK, SaveTypes, PostLayout, SaveReady, LoadsRest,
     ChainInv, Over, Open, Ended, InFlight
<1>6. SavedStands'
  BY <1>r DEF Inv, TypeOK, SaveTypes, PostLayout, SaveReady, keptVars,
     LoadsRest, SavedStands
<1> QED
  BY <1>1, <1>2, <1>3, <1>4, <1>5, <1>6 DEF Inv, TypeOK

LEMMA KeepLayoutKeeps ==
    ASSUME Inv, NEW s \in Saves, NEW fits \in BOOLEAN, KeepLayout(s, fits)
    PROVE  Inv'
<1>r. \A r \in Saves : r < s => spc[r] \in Ended
  BY ReadyAlone DEF Inv, KeepLayout
<1>k. at[s] \in Graphs /\ at[s] = Key /\ spc[s] = "queued"
  BY Constants DEF Inv, TypeOK, SaveTypes, LayoutInv, KeepLayout, SaveReady
<1>a. \A r \in Saves : s < r => spc[r] \in {"idle", "queued"}
  BY <1>k DEF Inv, ChainInv, Open
<1>1. SourceTypes' /\ LoadTypes' /\ RequestInv' /\ SessionInv' /\ AskInv'
  BY LoadsUntouched DEF KeepLayout
<1>2. SaveTypes'
  BY Constants DEF Inv, TypeOK, SaveTypes, KeepLayout, SaveReady, LoadsRest,
     Graphs, Layouts, InFlight, Ended
<1>3. LayoutInv'
  BY Constants DEF Inv, TypeOK, SourceTypes, LoadTypes, SaveTypes, KeepLayout,
     SaveReady, sourceVars, fetchVars, LoadsRest, Kinds, Graphs, Layouts,
     LayoutInv, DrawnIsCurrent, Key, RequestInv
<1>4. SentInv'
  BY Constants, <1>r DEF Inv, TypeOK, SaveTypes, KeepLayout, SaveReady,
     LoadsRest, SentInv, SavesGoHome, InFlight
<1>5. ChainInv'
  BY <1>r DEF Inv, TypeOK, SaveTypes, KeepLayout, SaveReady, LoadsRest,
     ChainInv, Over, Open, Ended, InFlight
<1>6. SavedStands'
  <2> SUFFICES ASSUME NEW q \in Saves, spc'[q] = "saved",
                      \A r \in Saves : r > q /\ at'[r] = at'[q] => spc'[r] \in {"queued", "skipped"}
               PROVE  q = stored'[at'[q]] \/ (at'[q] \in Endpoints /\ q = server'[at'[q]])
    BY DEF SavedStands
  <2>1. spc'[s] \in {"saved", "failed"}
    BY DEF Inv, TypeOK, SaveTypes, KeepLayout
  <2>2. CASE q = s
    BY <2>2, <1>k DEF Inv, TypeOK, SaveTypes, KeepLayout
  <2>3. CASE q # s
    <3>1. spc[q] = "saved"
      BY <2>3 DEF Inv, TypeOK, SaveTypes, KeepLayout
    <3>2. at[q] # at[s]
      <4>1. q \in Nat /\ s \in Nat
        BY Constants
      <4>2. CASE s > q
        BY <4>2, <2>1 DEF KeepLayout
      <4>3. CASE s < q
        BY <4>3, <1>a, <3>1
      <4> QED
        BY <4>1, <4>2, <4>3, <2>3
    <3>3. \A r \in Saves : r > q /\ at[r] = at[q] => spc[r] \in {"queued", "skipped"}
      BY <3>2 DEF Inv, TypeOK, SaveTypes, KeepLayout
    <3>4. q = stored[at[q]] \/ (at[q] \in Endpoints /\ q = server[at[q]])
      BY <3>1, <3>3 DEF Inv, SavedStands
    <3> QED
      BY <3>2, <3>4, <1>k DEF Inv, TypeOK, SaveTypes, KeepLayout
  <2> QED
    BY <2>2, <2>3
<1> QED
  BY <1>1, <1>2, <1>3, <1>4, <1>5, <1>6 DEF Inv, TypeOK

LEMMA PostLandsKeeps == ASSUME Inv, NEW s \in Saves, PostLands(s) PROVE Inv'
<1>k. to[s] \in Endpoints /\ at[s] = to[s] /\ spc[s] = "posting"
  BY Constants DEF Inv, SentInv, SavesGoHome, PostLands, InFlight
<1>o. \A r \in Saves : r # s => spc[r] \notin InFlight
  BY <1>k, OneInFlight DEF Inv, InFlight
<1>a. \A r \in Saves : s < r => spc[r] \in {"idle", "queued"}
  BY <1>k DEF Inv, ChainInv, Open, InFlight
<1>1. SourceTypes' /\ LoadTypes' /\ RequestInv' /\ SessionInv' /\ AskInv'
  BY LoadsUntouched DEF PostLands
<1>2. SaveTypes'
  BY Constants DEF Inv, TypeOK, SaveTypes, PostLands, shownVars, LoadsRest,
     Graphs, Layouts, InFlight, Ended
<1>3. LayoutInv'
  BY <1>k DEF Inv, TypeOK, SaveTypes, PostLands, LoadsRest, sourceVars,
     fetchVars, shownVars, LayoutInv, DrawnIsCurrent, Key
<1>4. SentInv'
  BY <1>k, <1>o DEF Inv, TypeOK, SaveTypes, PostLands, SentInv, SavesGoHome,
     InFlight
<1>5. ChainInv'
  BY DEF Inv, TypeOK, SaveTypes, PostLands, LoadsRest, ChainInv, Over, Open,
     Ended, InFlight
<1>6. SavedStands'
  <2> SUFFICES ASSUME NEW q \in Saves, spc'[q] = "saved",
                      \A r \in Saves : r > q /\ at'[r] = at'[q] => spc'[r] \in {"queued", "skipped"}
               PROVE  q = stored'[at'[q]] \/ (at'[q] \in Endpoints /\ q = server'[at'[q]])
    BY DEF SavedStands
  <2>1. spc[q] = "saved" /\ q # s
    BY <1>k DEF Inv, TypeOK, SaveTypes, PostLands
  <2>2. at[q] # at[s]
    <3>1. q \in Nat /\ s \in Nat
      BY Constants
    <3>2. CASE s > q
      BY <3>2, <1>k DEF Inv, TypeOK, SaveTypes, PostLands
    <3>3. CASE s < q
      BY <3>3, <1>a, <2>1
    <3> QED
      BY <3>1, <3>2, <3>3, <2>1
  <2>3. \A r \in Saves : r > q /\ at[r] = at[q] => spc[r] \in {"queued", "skipped"}
    BY <2>2 DEF Inv, TypeOK, SaveTypes, PostLands
  <2>4. q = stored[at[q]] \/ (at[q] \in Endpoints /\ q = server[at[q]])
    BY <2>1, <2>3 DEF Inv, SavedStands
  <2> QED
    BY <2>2, <2>4, <1>k DEF Inv, TypeOK, SaveTypes, PostLands
<1> QED
  BY <1>1, <1>2, <1>3, <1>4, <1>5, <1>6 DEF Inv, TypeOK

LEMMA PostAnsweredKeeps ==
    ASSUME Inv, NEW s \in Saves, PostAnswered(s)
    PROVE  Inv'
<1>1. SourceTypes' /\ LoadTypes' /\ RequestInv' /\ SessionInv' /\ AskInv'
  BY LoadsUntouched DEF PostAnswered
<1>2. SaveTypes'
  BY Constants DEF Inv, TypeOK, SaveTypes, PostAnswered, keptVars, LoadsRest,
     Graphs, Layouts, InFlight, Ended
<1>3. LayoutInv'
  BY Constants DEF Inv, TypeOK, SourceTypes, LoadTypes, SaveTypes,
     PostAnswered, sourceVars, fetchVars, keptVars, LoadsRest, Kinds, Graphs,
     Layouts, LayoutInv, DrawnIsCurrent, Key, RequestInv
<1>4. SentInv'
  BY Constants DEF Inv, TypeOK, SaveTypes, PostAnswered, keptVars, LoadsRest,
     SentInv, SavesGoHome, InFlight
<1>5. ChainInv'
  BY DEF Inv, TypeOK, SaveTypes, PostAnswered, LoadsRest, ChainInv, Over, Open,
     Ended, InFlight
<1>6. SavedStands'
  <2> SUFFICES ASSUME NEW q \in Saves, spc'[q] = "saved",
                      \A r \in Saves : r > q /\ at'[r] = at'[q] => spc'[r] \in {"queued", "skipped"}
               PROVE  q = stored'[at'[q]] \/ (at'[q] \in Endpoints /\ q = server'[at'[q]])
    BY DEF SavedStands
  <2>1. CASE q = s
    BY <2>1, Constants DEF Inv, TypeOK, SaveTypes, SentInv, SavesGoHome,
       InFlight, PostAnswered, keptVars
  <2>2. CASE q # s
    <3>1. spc[q] = "saved"
      BY <2>2 DEF Inv, TypeOK, SaveTypes, PostAnswered
    <3>2. \A r \in Saves : r > q /\ at[r] = at[q] => spc[r] \in {"queued", "skipped"}
      BY DEF Inv, TypeOK, SaveTypes, PostAnswered
    <3> QED
      BY <3>1, <3>2 DEF Inv, SavedStands, PostAnswered, keptVars
  <2> QED
    BY <2>1, <2>2
<1> QED
  BY <1>1, <1>2, <1>3, <1>4, <1>5, <1>6 DEF Inv, TypeOK

LEMMA PostFailsKeeps ==
    ASSUME Inv, NEW s \in Saves, NEW a \in Failures, PostFails(s, a)
    PROVE  Inv'
<1>d. DiscardToken => /\ requiresToken' = TRUE /\ token' = None
                      /\ session' \in [e : Endpoints, t : Endpoints \cup {None}] \cup {None}
                      /\ session' = IF endpoint = None THEN None ELSE [e |-> endpoint, t |-> None]
  BY Discarded DEF Inv, TypeOK
<1>1. SourceTypes'
  BY Constants, <1>d DEF Inv, TypeOK, SourceTypes, PostFails, Failures
<1>2. LoadTypes'
  BY Constants, <1>d DEF Inv, TypeOK, SourceTypes, LoadTypes, PostFails,
     Failures, fetchVars, loadVars, ackVars, Kinds, Waiting, Ready
<1>3. SaveTypes'
  BY Constants DEF Inv, TypeOK, SaveTypes, PostFails, Failures, keptVars,
     Graphs, Layouts, InFlight, Ended
<1>4. RequestInv'
  BY Constants, <1>d DEF Inv, TypeOK, SourceTypes, LoadTypes, PostFails,
     Failures, fetchVars, loadVars, RequestInv, Kinds
<1>5. SessionInv'
  BY Constants, <1>d DEF Inv, TypeOK, SourceTypes, PostFails, Failures,
     SessionInv, RequestInv
<1>6. AskInv'
  BY Constants, <1>d DEF Inv, TypeOK, SourceTypes, LoadTypes, PostFails,
     Failures, fetchVars, loadVars, ackVars, AskInv, UnacknowledgedNeverLoaded,
     RequestInv, Kinds, Ready
<1>7. LayoutInv'
  BY Constants, <1>d DEF Inv, TypeOK, SourceTypes, LoadTypes, SaveTypes,
     PostFails, Failures, fetchVars, keptVars, Kinds, Graphs, Layouts,
     LayoutInv, DrawnIsCurrent, Key, RequestInv
<1>8. SentInv'
  BY Constants DEF Inv, TypeOK, SaveTypes, PostFails, keptVars, SentInv,
     SavesGoHome, InFlight
<1>9. ChainInv'
  BY DEF Inv, TypeOK, SaveTypes, PostFails, ChainInv, Over, Open, Ended,
     InFlight
<1>10. SavedStands'
  BY DEF Inv, TypeOK, SaveTypes, PostFails, keptVars, SavedStands
<1> QED
  BY <1>1, <1>2, <1>3, <1>4, <1>5, <1>6, <1>7, <1>8, <1>9, <1>10 DEF Inv,
     TypeOK

-----------------------------------------------------------------------------
LEMMA InitHolds == Init => Inv
<1> SUFFICES ASSUME Init PROVE Inv
  OBVIOUS
<1>1. TypeOK
  <2>1. SourceTypes
    BY DEF Init, SourceTypes
  <2>2. LoadTypes
    BY DEF Init, LoadTypes
  <2>3. SaveTypes
    <3>1. moves \in 0..MaxMoves
      BY Constants DEF Init
    <3> QED
      BY <3>1 DEF Init, SaveTypes, Layouts
  <2> QED
    BY <2>1, <2>2, <2>3 DEF TypeOK
<1>2. RequestInv /\ SessionInv /\ AskInv
  BY Constants DEF Init, RequestInv, SessionInv, AskInv,
     UnacknowledgedNeverLoaded, Kinds
<1>3. LayoutInv /\ SentInv
  BY Constants DEF Init, LayoutInv, DrawnIsCurrent, SentInv, SavesGoHome,
     Kinds, InFlight
<1>4. ChainInv /\ SavedStands
  BY DEF Init, ChainInv, SavedStands, Over, Open, InFlight
<1> QED
  BY <1>1, <1>2, <1>3, <1>4 DEF Inv

LEMMA Unchanged == Inv /\ UNCHANGED vars => Inv'
<1> SUFFICES ASSUME Inv, UNCHANGED vars PROVE Inv'
  OBVIOUS
<1> USE DEF vars, sourceVars, fetchVars, loadVars, ackVars, shownVars, saveVars, keptVars
<1>1. TypeOK'
  BY DEF Inv, TypeOK, SourceTypes, LoadTypes, SaveTypes
<1>2. RequestInv' /\ SessionInv' /\ AskInv'
  BY DEF Inv, RequestInv, SessionInv, AskInv, UnacknowledgedNeverLoaded
<1>3. LayoutInv' /\ SentInv'
  BY DEF Inv, LayoutInv, DrawnIsCurrent, Key, SentInv, SavesGoHome
<1>4. ChainInv' /\ SavedStands'
  BY DEF Inv, ChainInv, SavedStands
<1> QED
  BY <1>1, <1>2, <1>3, <1>4 DEF Inv

LEMMA Step == Inv /\ [Next]_vars => Inv'
<1> SUFFICES ASSUME Inv, [Next]_vars PROVE Inv'
  OBVIOUS
<1>1. CASE UNCHANGED vars
  BY <1>1, Unchanged
<1>2. ASSUME NEW l \in Loads, LoadSteps(l) PROVE Inv'
  BY <1>2, ForgottenKeeps, InspectorAnsweredKeeps, InspectorRefusedKeeps,
     InspectorMissingKeeps, LegacyAnsweredKeeps, AcknowledgedKeeps,
     GraphAnsweredKeeps, GraphFailedKeeps DEF LoadSteps
<1>3. ASSUME NEW s \in Saves, SaveSteps(s) PROVE Inv'
  BY <1>3, SkipSaveKeeps, PostLayoutKeeps, KeepLayoutKeeps, PostLandsKeeps,
     PostAnsweredKeeps, PostFailsKeeps DEF SaveSteps
<1>4. CASE Next
  BY <1>2, <1>3, <1>4, SetSessionKeeps, OpenGraphFileKeeps,
     CloseGraphFileKeeps, ReloadKeeps, MountPageKeeps, RefreshKeeps,
     LayoutAnsweredKeeps, AnswerKeeps, AcknowledgeKeeps, DragKeeps,
     SaveLayoutKeeps DEF Next
<1> QED
  BY <1>1, <1>4

-----------------------------------------------------------------------------
(* Every invariant above, the strengthening and what it is for, holds of   *)
(* every state of the store.                                               *)
THEOREM Invariance == Spec => []Inv
<1>1. Init => Inv
  BY InitHolds
<1>2. Inv /\ [Next]_vars => Inv'
  BY Step
<1> QED
  BY <1>1, <1>2, PTL DEF Spec

(* Every variable of the store keeps to its type.                          *)
THEOREM TypeCorrect == Spec => []TypeOK
<1>1. Inv => TypeOK
  BY DEF Inv
<1> QED
  BY <1>1, Invariance, PTL

(* What is drawn is of the graph the tab is on, however late an answer     *)
(* comes, and of a version that was acknowledged if it has to be.          *)
THEOREM DrawnAsWanted == Spec => []DrawnIsWanted
<1>1. Inv => DrawnIsWanted
  BY DEF Inv, DrawnIsWanted, LayoutInv, AskInv
<1> QED
  BY <1>1, Invariance, PTL

(* A save reaches the keeper of the graph it arranges, and stands there    *)
(* once it is reported, until a later save of that graph is sent.          *)
THEOREM SavesStand == Spec => [](SavesGoHome /\ SavedStands)
<1>1. Inv => SavesGoHome /\ SavedStands
  BY DEF Inv, SentInv
<1> QED
  BY <1>1, Invariance, PTL

(* A reload of the page brings back the graph the tab was on, with the     *)
(* credential in use, or says that the file has to be opened again.        *)
THEOREM ReloadIsSurvived == Spec => ReloadKeepsGraph
<1>1. ASSUME Inv, NEW lands \in BOOLEAN, Reload(lands)
      PROVE  /\ endpoint' = endpoint /\ token' = token
             /\ file => file' \/ expired'
  <2>1. CASE endpoint = None
    <3>1. session = None /\ token = None
      BY <1>1, <2>1 DEF Inv, SessionInv
    <3>2. endpoint' = None /\ token' = None
      BY <1>1, <3>1 DEF Reload
    <3>3. file => file' \/ expired'
      BY <1>1, <3>1 DEF Inv, SessionInv, Reload
    <3> QED
      BY <2>1, <3>1, <3>2, <3>3
  <2>2. CASE endpoint # None
    <3>1. endpoint \in Endpoints /\ token \in Endpoints \cup {None} /\ ~file
      BY <1>1, <2>2 DEF Inv, TypeOK, SourceTypes, RequestInv
    <3>2. session = [e |-> endpoint, t |-> token] /\ session # None
      BY <1>1, <2>2, <3>1, Constants DEF Inv, SessionInv
    <3> QED
      BY <1>1, <3>1, <3>2 DEF Reload
  <2> QED
    BY <2>1, <2>2
<1>2. Inv => [\A lands \in BOOLEAN : Reload(lands) =>
                 /\ endpoint' = endpoint /\ token' = token
                 /\ file => file' \/ expired']_vars
  BY <1>1
<1> QED
  BY <1>2, Invariance, PTL DEF ReloadKeepsGraph
=============================================================================
