------------------------------- MODULE ChatEngine -------------------------------
(***************************************************************************)
(* The model engine of one chat panel, site/app/composables/               *)
(* useWebLlmEngine.ts: a worker with a model resident on the GPU, loads    *)
(* that take minutes, and generations that queue on web-llm's lock.  What  *)
(* the engine promises is settled by its callers' actions, in ChatPanel:   *)
(* here is what each call changes at once.                                 *)
(***************************************************************************)
EXTENDS Naturals, Sequences, FiniteSets

CONSTANTS
    Models,    \* the curated models
    NoModel,   \* no model: the empty id
    Downloaded \* which of them a browser may hold from earlier visits

ASSUME EngineAssumption == NoModel \notin Models /\ Downloaded \subseteq SUBSET Models

VARIABLES
    narrow,     \* isMobile(): the window is below the desktop breakpoint
    engine,     \* is there an engine?
    resident,   \* loadedModelId
    preparing,  \* preparingModelId, NoModel unless isPreparingModel
    loads,      \* loads in flight: [by, model, fresh]
    threads,    \* worker threads that have not been terminated
    generating, \* isGenerating
    lock,       \* the run whose generation holds the model, 0 when it is free
    disk,       \* models in the browser's cache
    cached,     \* cachedModelIds: what was last read of it
    supported,  \* isSupported
    listed,     \* hasLoadedCatalog
    reading,    \* isLoadingCatalog
    readFailed  \* error: the list could not be read

loadVars    == <<engine, resident, preparing, loads, threads>>
catalogVars == <<disk, cached, supported, listed, reading, readFailed>>
engineVars  == <<narrow, loadVars, generating, lock, catalogVars>>

EngineInit ==
    /\ engine = FALSE /\ resident = NoModel /\ preparing = NoModel
    /\ loads = {} /\ threads = 0 /\ generating = FALSE /\ lock = 0
    /\ disk \in Downloaded /\ cached = {}
    /\ supported = FALSE /\ listed = FALSE /\ reading = FALSE /\ readFailed = FALSE

(* Nothing is to be loaded for a generation: the empty choice takes whatever   *)
(* the engine there is holds.                                                 *)
IsReady(model) == engine /\ model \in {NoModel, resident}

--------------------------------------------------------------------------------
(* prepareModel                                                               *)

(* A model that is not there is loaded into the engine there is, or into a    *)
(* worker of its own.  Two loads never run at once.                           *)
MayLoad == preparing = NoModel

StartLoad(by, model) ==
    /\ preparing' = model
    /\ loads' = loads \cup {[by |-> by, model |-> model, fresh |-> ~engine]}
    /\ threads' = IF engine THEN threads ELSE threads + 1
    /\ UNCHANGED <<engine, resident>>

(* The worker of a load is known to the engine from here on, and not before.  *)
LoadSucceeds(load) ==
    /\ loads' = loads \ {load}
    /\ preparing' = NoModel
    /\ engine' = TRUE /\ resident' = load.model
    /\ disk' = disk \cup {load.model} /\ cached' = disk'
    /\ UNCHANGED <<threads, supported, listed, reading, readFailed>>

(* A reload that fails has already given the old model up. *)
LoadFailsLeavingWorker(load) ==
    /\ loads' = loads \ {load}
    /\ preparing' = NoModel
    /\ resident' = NoModel
    /\ UNCHANGED <<engine, threads, catalogVars>>

LoadFails(load) ==
    /\ loads' = loads \ {load}
    /\ preparing' = NoModel
    /\ resident' = NoModel
    /\ threads' = IF load.fresh THEN threads - 1 ELSE threads
    /\ UNCHANGED <<engine, catalogVars>>

--------------------------------------------------------------------------------
(* checkSupport, refreshCatalog, deleteModel                                  *)

(* A narrow window is refused the runtime: the list is emptied unread. *)
RefreshCatalog ==
    IF narrow THEN listed' = FALSE /\ cached' = {} /\ readFailed' = FALSE /\ UNCHANGED reading
    ELSE reading' = TRUE /\ UNCHANGED <<listed, cached, readFailed>>

CatalogRead(isRead) ==
    /\ reading' = FALSE
    /\ listed' = isRead /\ readFailed' = ~isRead
    /\ cached' = IF isRead THEN disk ELSE {}
    /\ UNCHANGED <<disk, supported>>

DeleteModel(model) ==
    /\ resident' = IF resident = model THEN NoModel ELSE resident
    /\ disk' = disk \ {model}
    /\ UNCHANGED <<engine, preparing, loads, threads>>

--------------------------------------------------------------------------------
(* dispose: what is in flight is not waited for.                              *)

Dispose ==
    /\ engine' = FALSE /\ resident' = NoModel /\ preparing' = NoModel
    /\ threads' = IF engine THEN threads - 1 ELSE threads
    /\ generating' = FALSE /\ lock' = 0
    /\ loads' = {l \in loads : l.fresh} \* a terminated worker never answers
=============================================================================
