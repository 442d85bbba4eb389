------------------------------ MODULE Startup -------------------------------
(***************************************************************************)
(* Starting and restarting the server: the model directory it prepares     *)
(* (ensure_voxtral_snapshot), the engine it builds from it, and the        *)
(* connection limit it derives (build_vllm_realtime, build_runtime_deps).  *)
(*                                                                         *)
(* The directory survives a process; everything else dies with it. A       *)
(* process may crash between any two steps, and any call that leaves the   *)
(* process (download, write, engine) may fail. Several processes may serve *)
(* from one directory, once its download is done.                          *)
(***************************************************************************)
EXTENDS EngineTuning, FiniteSets, Functions

CONSTANTS
  Procs,      \* server processes that share VOXTRAL_MODEL_DIR
  Shards,     \* the model's *.safetensors files
  ShardBytes, \* their sizes
  Hosts,      \* the hosts and models looked at
  Delays,     \* VOXTRAL_TRANSCRIPTION_DELAY_MS, as the operator may set it
  None,       \* no file, no key in tekken.json, no engine
  Torn,       \* a file opened for writing: truncated, not yet written
  MaxFaults   \* bound of the model: crashes, failures and wiped directories

\* tekken.json: the delay at its top level, that of its audio section, and
\* whether it is a JSON object at all.
Tekkens == [top : Delays \cup {None}, audio : Delays \cup {None}, object : BOOLEAN]

ParamsFile == "params.json"
TekkenFile == "tekken.json"

ASSUME StartupAssumption ==
  /\ IsFiniteSet(Shards) /\ Shards # {} /\ {ParamsFile, TekkenFile} \cap Shards = {}
  /\ ShardBytes \in [Shards -> Nat]
  /\ Delays \subseteq Int /\ None \notin Delays /\ MaxFaults \in Nat
  /\ \A h \in Hosts : /\ h.tekken \in Tekkens /\ h.vllm \in Settings
                     /\ h.vram \in Nat /\ h.limit \in Int
                     /\ \A k \in DOMAIN h.doc : h.doc[k] \in Int
  /\ None \notin Tekkens /\ Torn \notin Tekkens /\ None # Torn

VARIABLES
  host,   \* the host, its environment and the repository's model; fixed
  wanted, \* the delay configured for the next starts
  disk,   \* the model directory
  pc,     \* how far each process is in its start
  todo,   \* the files its download has still to look at
  doc,    \* the tekken.json it is about to write
  tuned,  \* what vLLM is to be started with
  engine, \* the engine it holds: what it read of tekken.json, its arguments
  limit,  \* its ConnectionManager's _max
  faults, \* crashes, failures and wiped directories so far
  cut     \* history: a download or a write was interrupted in this directory

local == <<pc, todo, doc, tuned, engine, limit>>
vars  == <<host, wanted, disk, local, faults, cut>>

Phases == {"off", "check", "download", "read", "truncate", "write",
           "tune", "load", "serve", "ready", "failed"}

Files      == Shards \cup {ParamsFile, TekkenFile}
EmptyDir   == [params |-> FALSE, tekken |-> None, shards |-> {}]
Snapshot   == [params |-> TRUE, tekken |-> host.tekken, shards |-> Shards]

Weights(shards) == SumFunctionOnSet(ShardBytes, shards)
ParamsDoc == IF disk.params THEN host.doc ELSE [k \in {} |-> 0]

Init ==
  /\ host \in Hosts /\ wanted \in Delays
  /\ disk \in {EmptyDir, Snapshot}   \* downloaded, or copied there by hand
  /\ pc = [p \in Procs |-> "off"] /\ todo = [p \in Procs |-> {}]
  /\ doc = [p \in Procs |-> None] /\ tuned = [p \in Procs |-> None]
  /\ engine = [p \in Procs |-> None] /\ limit = [p \in Procs |-> 0]
  /\ faults = 0 /\ cut = FALSE

Goto(p, phase) == pc' = [pc EXCEPT ![p] = phase]
Off(p) == pc[p] = "off"
-----------------------------------------------------------------------------
(* The operator.                                                             *)

\* A process starts alone, or when the directory's download is done.
MayStart(p) ==
  \/ \A q \in Procs \ {p} : Off(q)
  \/ /\ disk.params /\ disk.tekken # None /\ disk.shards = Shards
     /\ \A q \in Procs : pc[q] # "download"

Start(p) ==
  /\ Off(p) /\ MayStart(p)
  /\ Goto(p, "check")
  /\ UNCHANGED <<host, wanted, disk, todo, doc, tuned, engine, limit, faults, cut>>

SetDelay ==
  /\ \A p \in Procs : Off(p)
  /\ wanted' \in Delays \ {wanted}
  /\ UNCHANGED <<host, disk, local, faults, cut>>

\* Forcing a fresh download.
Wipe ==
  /\ \A p \in Procs : Off(p)
  /\ disk # EmptyDir /\ faults < MaxFaults
  /\ disk' = EmptyDir /\ cut' = FALSE /\ faults' = faults + 1
  /\ UNCHANGED <<host, wanted, local>>
-----------------------------------------------------------------------------
(* The model directory.                                                      *)

ValidDelay(d) == d \in 80..2400 /\ d % 80 = 0

LooksLikeSnapshot == disk.params /\ disk.tekken # None /\ disk.shards # {}

Check(p) ==
  /\ pc[p] = "check"
  /\ IF ~ValidDelay(wanted) THEN Goto(p, "failed") /\ UNCHANGED todo
     ELSE IF LooksLikeSnapshot THEN Goto(p, "read") /\ UNCHANGED todo
     ELSE Goto(p, "download") /\ todo' = [todo EXCEPT ![p] = Files]
  /\ UNCHANGED <<host, wanted, disk, doc, tuned, engine, limit, faults, cut>>

\* snapshot_download (external) puts a file in place when it is complete; one
\* that was changed since it may keep or fetch again.
Fetch(p) ==
  /\ pc[p] = "download"
  /\ \E f \in todo[p] :
       /\ todo' = [todo EXCEPT ![p] = @ \ {f}]
       /\ \/ f = ParamsFile /\ disk' = [disk EXCEPT !.params = TRUE]
          \/ f \in Shards /\ disk' = [disk EXCEPT !.shards = @ \cup {f}]
          \/ f = TekkenFile /\ disk' = [disk EXCEPT !.tekken = host.tekken]
          \/ f = TekkenFile /\ disk.tekken # None /\ UNCHANGED disk
  /\ UNCHANGED <<host, wanted, pc, doc, tuned, engine, limit, faults, cut>>

DownloadedSome(p) == Cardinality(todo[p]) <= 1  \* mutant
Downloaded(p) == todo[p] = {}

DownloadDone(p) ==
  /\ pc[p] = "download" /\ Downloaded(p)
  /\ Goto(p, "read")
  /\ UNCHANGED <<host, wanted, disk, todo, doc, tuned, engine, limit, faults, cut>>

\* The top-level key wins; without either key one is added at the top level.
PatchedKeepsOld(t, d) ==  \* mutant
  IF t.object /\ t.top = None /\ t.audio = None THEN [t EXCEPT !.top = d] ELSE t
PatchedInTokens(t, d) == IF t.object THEN [t EXCEPT !.top = d \div 80] ELSE t  \* mutant
Patched(t, d) ==
  IF ~t.object THEN t
  ELSE IF t.top = None /\ t.audio # None THEN [t EXCEPT !.audio = d]
  ELSE [t EXCEPT !.top = d]

UnreadableStrict(t) == IF t \in {None, Torn} THEN t = Torn ELSE ~t.object  \* mutant
Unreadable(t) == t = Torn

\* _patch_tekken_json up to its write: a file json refuses, nothing to do, or
\* a document to write.
ReadTekken(p) ==
  /\ pc[p] = "read"
  /\ LET t == disk.tekken
     IN \/ Unreadable(t) /\ Goto(p, "failed") /\ UNCHANGED doc
        \/ /\ t = None \/ (~Unreadable(t) /\ Patched(t, wanted) = t)
           /\ Goto(p, "tune") /\ UNCHANGED doc
        \/ /\ t # None /\ ~Unreadable(t) /\ Patched(t, wanted) # t
           /\ Goto(p, "truncate") /\ doc' = [doc EXCEPT ![p] = Patched(t, wanted)]
  /\ UNCHANGED <<host, wanted, disk, todo, tuned, engine, limit, faults, cut>>

\* write_text opens the file, which empties it, and then writes it.
Truncate(p) ==
  /\ pc[p] = "truncate"
  /\ disk' = [disk EXCEPT !.tekken = Torn]
  /\ Goto(p, "write")
  /\ UNCHANGED <<host, wanted, todo, doc, tuned, engine, limit, faults, cut>>

Write(p) ==
  /\ pc[p] = "write"
  /\ disk' = [disk EXCEPT !.tekken = doc[p]]
  /\ Goto(p, "tune")
  /\ UNCHANGED <<host, wanted, todo, doc, tuned, engine, limit, faults, cut>>
-----------------------------------------------------------------------------
(* The engine and what is built on it.                                       *)

\* The choice of arguments, with the weights that are in the directory now.
Tune(p) ==
  /\ pc[p] = "tune"
  /\ LET v == Selected(host.vllm, host.env, host.gpu)
     IN tuned' = [tuned EXCEPT ![p] =
          [vllm |-> v, seqs |-> TuneMaxNumSeqs(v, host.env, host.vram, ParamsDoc,
                                               Weights(disk.shards))]]
  /\ Goto(p, "load")
  /\ UNCHANGED <<host, wanted, disk, todo, doc, engine, limit, faults, cut>>

Loadable == disk.params /\ disk.tekken \in Tekkens /\ disk.shards = Shards

\* The engine (external) reads the directory.
Load(p) ==
  /\ pc[p] = "load"
  /\ IF Loadable
     THEN /\ engine' = [engine EXCEPT ![p] =
               [tekken |-> disk.tekken, args |-> EngineArgs(tuned[p].vllm, tuned[p].seqs)]]
          /\ Goto(p, "serve")
     ELSE Goto(p, "failed") /\ UNCHANGED engine
  /\ UNCHANGED <<host, wanted, disk, todo, doc, tuned, limit, faults, cut>>

Serve(p) ==
  /\ pc[p] = "serve"
  /\ limit' = [limit EXCEPT ![p] =
       MaxConnections(host.limit, TunedSettings(tuned[p].vllm, tuned[p].seqs))]
  /\ Goto(p, "ready")
  /\ UNCHANGED <<host, wanted, disk, todo, doc, tuned, engine, faults, cut>>
-----------------------------------------------------------------------------
(* Ends.                                                                     *)

\* The process is gone, and its engine with it.
Gone(p) ==
  /\ Goto(p, "off")
  /\ todo' = [todo EXCEPT ![p] = {}] /\ doc' = [doc EXCEPT ![p] = None]
  /\ tuned' = [tuned EXCEPT ![p] = None] /\ engine' = [engine EXCEPT ![p] = None]
  /\ limit' = [limit EXCEPT ![p] = 0]

Interrupts(p) == cut' = (cut \/ pc[p] \in {"download", "write"})

\* The lifespan's shutdown closes the engine's exit stack.
Shutdown(p) ==
  /\ pc[p] = "ready" /\ Gone(p)
  /\ UNCHANGED <<host, wanted, disk, faults, cut>>

\* An exception in the lifespan's startup ends the server.
Exit(p) ==
  /\ pc[p] = "failed" /\ Gone(p)
  /\ UNCHANGED <<host, wanted, disk, faults, cut>>

\* A download, a write, the engine or the serving models raise. Nobody closes
\* an engine that was entered: its exit stack is only returned on success.
Fail(p) ==
  /\ pc[p] \in {"download", "truncate", "write", "load", "serve"}
  /\ faults < MaxFaults /\ faults' = faults + 1
  /\ Interrupts(p) /\ Goto(p, "failed")
  /\ UNCHANGED <<host, wanted, disk, todo, doc, tuned, engine, limit>>

Crash(p) ==
  /\ ~Off(p)
  /\ faults < MaxFaults /\ faults' = faults + 1
  /\ Interrupts(p) /\ Gone(p)
  /\ UNCHANGED <<host, wanted, disk>>
-----------------------------------------------------------------------------
Step(p) == Check(p) \/ Fetch(p) \/ DownloadDone(p) \/ ReadTekken(p) \/ Truncate(p)
           \/ Write(p) \/ Tune(p) \/ Load(p) \/ Serve(p) \/ Exit(p)

Next == SetDelay \/ Wipe
        \/ \E p \in Procs : Start(p) \/ Step(p) \/ Shutdown(p) \/ Fail(p) \/ Crash(p)

Spec == Init /\ [][Next]_vars

\* A supervisor starts the server again and a running start goes on; nothing
\* obliges the operator to act, or anything to fail.
Fairness == \A p \in Procs : WF_vars(Start(p)) /\ WF_vars(Step(p))
FairSpec == Spec /\ Fairness
-----------------------------------------------------------------------------
\* The delay a document gives the engine.
DelayOf(t) == IF t.top # None THEN t.top ELSE t.audio

\* Every variable keeps its type.
TypeOK ==
  /\ host \in Hosts /\ wanted \in Delays
  /\ disk \in [params : BOOLEAN, tekken : Tekkens \cup {None, Torn}, shards : SUBSET Shards]
  /\ pc \in [Procs -> Phases] /\ todo \in [Procs -> SUBSET Files]
  /\ doc \in [Procs -> Tekkens \cup {None}] /\ limit \in [Procs -> Nat]
  /\ \A p \in Procs : pc[p] \in {"truncate", "write"} => doc[p] \in Tekkens
  /\ DOMAIN tuned = Procs /\ DOMAIN engine = Procs
  /\ faults \in 0..MaxFaults /\ cut \in BOOLEAN

Running(p) == engine[p] # None

\* A running engine has read the configured delay, whatever crashed before it
\* and whatever another replica writes, wherever tekken.json keeps its delay
\* (model.py:27-63; ADVANCED.md:81: "applies the patch before vLLM engine
\* initialization").
EngineHasDelay ==
  \A p \in Procs : Running(p) =>
    /\ ValidDelay(wanted)
    /\ engine[p].tekken.object => DelayOf(engine[p].tekken) = wanted

\* From such a directory no start succeeds, and none downloads again.
Bricked ==
  /\ LooksLikeSnapshot /\ ~Loadable
  /\ \A p \in Procs : pc[p] \notin {"download", "truncate", "write"}

\* Only an interrupted download or an interrupted rewrite of tekken.json
\* leaves the directory so (model.py:62, :66-72).
BrickedOnlyIfCut == Bricked => cut

\* Once the operator leaves the delay alone, a server that is started again
\* comes up, unless the directory is bricked or the delay is refused: no torn
\* file, partial download or failed start keeps it down otherwise.
Settled == <>[][wanted' = wanted]_wanted
ComesUp == Settled =>
  \A p \in Procs : Off(p) ~> pc[p] = "ready" \/ Bricked \/ ~ValidDelay(wanted)

\* Tokens of one sequence vLLM keeps: all up to the model's length, or as many
\* as the window and the next batch reach.
KeptTokens(v, window) ==
  Cardinality({t \in 1..v.max_model_len : window > 0 => t < window + v.max_num_batched_tokens})

\* When the server chose another number of sequences than the configured one,
\* and more than the one it must allow, their caches fit beside the model's
\* real weights in the share of memory vLLM may use (vllm.py:214-264), although
\* it sums the weights some steps before the engine reads them.
KvFits ==
  \A p \in Procs : Running(p) =>
    LET a      == engine[p].args
        arch   == Arch(host.doc)
        perSeq == PerTokenBytes(arch, a.kv_cache_dtype) * KeptTokens(a, arch.sliding_window)
    IN a.max_num_seqs \notin {1, host.vllm.max_num_seqs}
       => 100 * (Weights(Shards) + a.max_num_seqs * perSeq) <= host.vram * a.gpu_memory_utilization

\* With an automatic limit, as many connections are admitted as the engine
\* runs sequences (dependencies.py:30-45, vllm.py:281-300, :319-344).
LimitMatchesEngine ==
  \A p \in Procs : pc[p] = "ready" /\ host.limit <= 0
    => limit[p] = engine[p].args.max_num_seqs
=============================================================================
