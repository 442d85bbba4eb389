--------------------------- MODULE StartupProofs ----------------------------
(***************************************************************************)
(* The safety of starting and restarting, for any number of processes,     *)
(* hosts and faults: the delay an engine has read, the directory crashes   *)
(* leave behind, and the limit of connections.                             *)
(***************************************************************************)
EXTENDS Startup, DataLemmas

\* The part of TypeOK the proofs below need.
Typed ==
  /\ host \in Hosts /\ wanted \in Delays
  /\ disk \in [params : BOOLEAN, tekken : Tekkens \cup {None, Torn}, shards : SUBSET Shards]
  /\ pc \in [Procs -> Phases] /\ todo \in [Procs -> SUBSET Files]
  /\ DOMAIN doc = Procs /\ DOMAIN tuned = Procs /\ DOMAIN engine = Procs /\ DOMAIN limit = Procs
  /\ cut \in BOOLEAN

\* A document that gives an engine the configured delay.
Good(t) == t \in Tekkens /\ (t.object => DelayOf(t) = wanted)

\* Who downloads is alone; who is about to look is alone or finds everything.
Alone(p) == \A q \in Procs \ {p} : Off(q)
Complete == disk.params /\ disk.tekken # None /\ disk.shards = Shards
Downloads ==
  \A p \in Procs :
    /\ pc[p] = "download" => Alone(p)
    /\ pc[p] = "check" => Alone(p) \/ Complete

\* How the delay gets from the settings to the engine.
DelayPath ==
  \A p \in Procs :
    /\ pc[p] \notin {"off", "check", "failed"} => ValidDelay(wanted)
    /\ pc[p] \in {"truncate", "write"} => Good(doc[p])
    /\ pc[p] \in {"tune", "load"} => disk.tekken \in {None, Torn} \/ Good(disk.tekken)
    /\ pc[p] = "off" => engine[p] = None
    /\ engine[p] # None => ValidDelay(wanted) /\ Good(engine[p].tekken)

\* A file is torn, or shards are missing, only while somebody is at it, or
\* after an interruption.
Fetched(p) ==
  /\ ParamsFile \notin todo[p] => disk.params
  /\ TekkenFile \notin todo[p] => disk.tekken # None
  /\ Shards \ todo[p] \subseteq disk.shards
Whole ==
  /\ \A p \in Procs : pc[p] = "download" => Fetched(p)
  /\ disk.tekken = Torn => cut \/ \E p \in Procs : pc[p] = "write"
  /\ disk.shards \notin {{}, Shards} => cut \/ \E p \in Procs : pc[p] = "download"

\* How the number of sequences gets to the engine and to the limit.
SeqsPath ==
  \A p \in Procs :
    /\ pc[p] = "load" => "max_num_seqs" \in DOMAIN tuned[p].vllm
    /\ pc[p] \in {"serve", "ready"} =>
         /\ "max_num_seqs" \in DOMAIN tuned[p].vllm
         /\ engine[p].args.max_num_seqs = AtLeast(1, tuned[p].seqs)
    /\ pc[p] = "ready" /\ host.limit <= 0 => limit[p] = AtLeast(1, tuned[p].seqs)

IInv == Typed /\ Downloads /\ DelayPath /\ Whole /\ SeqsPath

\* Patching a document gives it the delay, wherever it keeps it.
LEMMA PatchedIsGood ==
  ASSUME NEW t \in Tekkens, NEW d \in Delays
  PROVE  /\ Patched(t, d) \in Tekkens
         /\ Patched(t, d).object => DelayOf(Patched(t, d)) = d
BY StartupAssumption DEF StartupAssumption, Tekkens, Patched, DelayOf

LEMMA FilesDistinct ==
  /\ ParamsFile # TekkenFile /\ ParamsFile \notin Shards /\ TekkenFile \notin Shards
  /\ Shards # {}
BY StartupAssumption DEF ParamsFile, TekkenFile, StartupAssumption

LEMMA InitOK == Init => IInv
<1> SUFFICES ASSUME Init PROVE IInv
  OBVIOUS
<1>1. Typed
  <2>1. host \in Hosts /\ wanted \in Delays /\ host.tekken \in Tekkens
    BY StartupAssumption DEF Init, StartupAssumption
  <2>2. disk \in [params : BOOLEAN, tekken : Tekkens \cup {None, Torn}, shards : SUBSET Shards]
    <3>1. EmptyDir \in [params : BOOLEAN, tekken : Tekkens \cup {None, Torn}, shards : SUBSET Shards]
      BY DEF EmptyDir
    <3>2. Snapshot \in [params : BOOLEAN, tekken : Tekkens \cup {None, Torn}, shards : SUBSET Shards]
      BY <2>1 DEF Snapshot
    <3> QED BY <3>1, <3>2 DEF Init
  <2>3. pc \in [Procs -> Phases] /\ todo \in [Procs -> SUBSET Files]
    BY DEF Init, Phases
  <2>4. DOMAIN doc = Procs /\ DOMAIN tuned = Procs /\ DOMAIN engine = Procs /\ DOMAIN limit = Procs
    BY DEF Init
  <2> QED BY <2>1, <2>2, <2>3, <2>4 DEF Init, Typed
<1>2. Downloads /\ DelayPath /\ SeqsPath
  BY DEF Init, Downloads, DelayPath, SeqsPath
<1>3. Whole
  BY StartupAssumption DEF Init, Whole, EmptyDir, Snapshot, StartupAssumption
<1> QED BY <1>1, <1>2, <1>3 DEF IInv

LEMMA TypedStep == ASSUME IInv, Next PROVE Typed'
<1> USE DEF IInv, Typed, Goto, Phases
<1>1. CASE SetDelay
  BY <1>1 DEF SetDelay, local
<1>2. CASE Wipe
  BY <1>2 DEF Wipe, EmptyDir, local
<1>3. ASSUME NEW p \in Procs, Start(p) PROVE Typed'
  BY <1>3 DEF Start
<1>4. ASSUME NEW p \in Procs, Step(p) PROVE Typed'
  <2>1. CASE Check(p)
    BY <2>1 DEF Check
  <2>2. CASE Fetch(p)
    <3>1. host.tekken \in Tekkens
      BY StartupAssumption DEF StartupAssumption
    <3>2. /\ todo' \in [Procs -> SUBSET Files]
          /\ UNCHANGED <<host, wanted, pc, doc, tuned, engine, limit, faults, cut>>
      BY <2>2 DEF Fetch
    <3>3. \/ \E f \in Shards : disk' = [disk EXCEPT !.shards = @ \cup {f}]
          \/ disk' = [disk EXCEPT !.params = TRUE]
          \/ disk' = [disk EXCEPT !.tekken = host.tekken]
          \/ disk' = disk
      BY <2>2 DEF Fetch
    <3>4. disk' \in [params : BOOLEAN, tekken : Tekkens \cup {None, Torn}, shards : SUBSET Shards]
      <4>1. CASE \E f \in Shards : disk' = [disk EXCEPT !.shards = @ \cup {f}]
        BY <4>1
      <4>2. CASE disk' = [disk EXCEPT !.params = TRUE]
        BY <4>2
      <4>3. CASE disk' = [disk EXCEPT !.tekken = host.tekken]
        BY <4>3, <3>1
      <4> QED BY <3>3, <4>1, <4>2, <4>3
    <3> QED BY <3>2, <3>4
  <2>3. CASE DownloadDone(p)
    BY <2>3 DEF DownloadDone
  <2>4. CASE ReadTekken(p)
    BY <2>4 DEF ReadTekken
  <2>5. CASE Truncate(p)
    BY <2>5 DEF Truncate
  <2>6. CASE Write(p)
    <3>1. doc[p] \in Tekkens
      BY <2>6 DEF Write, DelayPath, Good
    <3> QED BY <2>6, <3>1 DEF Write
  <2>7. CASE Tune(p)
    BY <2>7 DEF Tune
  <2>8. CASE Load(p)
    BY <2>8 DEF Load
  <2>9. CASE Serve(p)
    BY <2>9 DEF Serve
  <2>10. CASE Exit(p)
    BY <2>10 DEF Exit, Gone
  <2> QED BY <1>4, <2>1, <2>2, <2>3, <2>4, <2>5, <2>6, <2>7, <2>8, <2>9, <2>10 DEF Step
<1>5. ASSUME NEW p \in Procs, Shutdown(p) PROVE Typed'
  BY <1>5 DEF Shutdown, Gone
<1>6. ASSUME NEW p \in Procs, Fail(p) PROVE Typed'
  BY <1>6 DEF Fail, Interrupts
<1>7. ASSUME NEW p \in Procs, Crash(p) PROVE Typed'
  BY <1>7 DEF Crash, Interrupts, Gone
<1> QED BY <1>1, <1>2, <1>3, <1>4, <1>5, <1>6, <1>7 DEF Next

\* A process starts looking alone or at a complete directory, and nobody who
\* is not alone ever has to download.
LEMMA DownloadsStep == ASSUME IInv, Next PROVE Downloads'
<1> USE DEF IInv, Typed, Goto, Downloads, Alone, Off
<1>1. CASE SetDelay \/ Wipe
  BY <1>1 DEF SetDelay, Wipe, local
<1>2. ASSUME NEW p \in Procs, Start(p) PROVE Downloads'
  <2>1. UNCHANGED disk /\ pc' = [pc EXCEPT ![p] = "check"] /\ pc[p] = "off"
    BY <1>2 DEF Start
  <2>2. CASE \A q \in Procs \ {p} : pc[q] = "off"
    BY <2>1, <2>2 DEF Complete
  <2>3. CASE Complete /\ \A q \in Procs : pc[q] # "download"
    BY <2>1, <2>3 DEF Complete
  <2> QED BY <1>2, <2>2, <2>3 DEF Start, MayStart, Complete
<1>3. ASSUME NEW p \in Procs, Check(p) PROVE Downloads'
  <2>1. CASE Alone(p)
    BY <1>3, <2>1 DEF Check
  <2>2. CASE Complete
    <3>1. LooksLikeSnapshot
      BY <2>2, FilesDistinct DEF Complete, LooksLikeSnapshot
    <3> QED BY <1>3, <2>2, <3>1 DEF Check, Complete
  <2> QED BY <1>3, <2>1, <2>2 DEF Check
<1>4. ASSUME NEW p \in Procs, Fetch(p) PROVE Downloads'
  BY <1>4 DEF Fetch
<1>5. ASSUME NEW p \in Procs, Truncate(p) \/ Write(p) PROVE Downloads'
  <2>1. \A q \in Procs : pc'[q] \in {"check", "download"} => pc'[q] = pc[q]
    BY <1>5 DEF Truncate, Write
  <2>2. \A q \in Procs : pc[q] = "off" => pc'[q] = "off"
    BY <1>5 DEF Truncate, Write
  <2>3. Complete => Complete'
    <3>1. doc[p] \in Tekkens \/ ~Write(p)
      BY DEF DelayPath, Good, Write
    <3> QED BY <1>5, <3>1, StartupAssumption DEF Truncate, Write, Complete, StartupAssumption
  <2> QED BY <2>1, <2>2, <2>3
<1>6. ASSUME NEW p \in Procs,
             DownloadDone(p) \/ ReadTekken(p) \/ Tune(p) \/ Load(p) \/ Serve(p) \/ Fail(p)
      PROVE  Downloads'
  <2>1. UNCHANGED disk /\ pc[p] # "off" /\ \E x \in Phases \ {"check", "download"} : pc' = [pc EXCEPT ![p] = x]
    BY <1>6 DEF DownloadDone, ReadTekken, Tune, Load, Serve, Fail, Phases
  <2> QED BY <2>1 DEF Complete
<1>7. ASSUME NEW p \in Procs, Exit(p) \/ Shutdown(p) \/ Crash(p) PROVE Downloads'
  <2>1. UNCHANGED disk /\ pc' = [pc EXCEPT ![p] = "off"]
    BY <1>7 DEF Exit, Shutdown, Crash, Gone
  <2> QED BY <2>1 DEF Complete
<1> QED BY <1>1, <1>2, <1>3, <1>4, <1>5, <1>6, <1>7 DEF Next, Step

\* Only an alone process writes settings, downloads, or changes the document
\* while an engine may be reading it, and a written document is Good.
LEMMA DelayStep == ASSUME IInv, Next PROVE DelayPath'
<1> USE DEF IInv, Typed, Goto, DelayPath, Good
<1>1. CASE SetDelay \/ Wipe
  BY <1>1 DEF SetDelay, Wipe, EmptyDir, local, Off
<1>2. ASSUME NEW p \in Procs, Start(p) PROVE DelayPath'
  BY <1>2 DEF Start, Off
<1>3. ASSUME NEW p \in Procs, Check(p) PROVE DelayPath'
  BY <1>3 DEF Check
<1>4. ASSUME NEW p \in Procs, Fetch(p) PROVE DelayPath'
  <2>1. \A q \in Procs : pc[q] \notin {"tune", "load"}
    BY <1>4 DEF Fetch, Downloads, Alone, Off
  <2> QED BY <1>4, <2>1 DEF Fetch
<1>5. ASSUME NEW p \in Procs, DownloadDone(p) PROVE DelayPath'
  BY <1>5 DEF DownloadDone
<1>6. ASSUME NEW p \in Procs, ReadTekken(p) PROVE DelayPath'
  <2>1. ValidDelay(wanted) /\ wanted \in Delays
    BY <1>6 DEF ReadTekken
  <2>2. disk.tekken \in Tekkens \cup {None, Torn}
    OBVIOUS
  <2>3. disk.tekken \in Tekkens => Good(Patched(disk.tekken, wanted))
    BY <2>1, PatchedIsGood
  <2> HIDE DEF Typed
  <2>4. CASE Unreadable(disk.tekken)
    BY <1>6, <2>4 DEF ReadTekken, Typed
  <2>5. CASE disk.tekken = None
    BY <1>6, <2>5 DEF ReadTekken, Typed
  <2>6. CASE disk.tekken \in Tekkens
    BY <1>6, <2>1, <2>3, <2>6 DEF ReadTekken, Typed
  <2> QED BY <2>2, <2>4, <2>5, <2>6 DEF Unreadable
<1>7. ASSUME NEW p \in Procs, Truncate(p) PROVE DelayPath'
  BY <1>7 DEF Truncate
<1>8. ASSUME NEW p \in Procs, Write(p) PROVE DelayPath'
  BY <1>8 DEF Write
<1>9. ASSUME NEW p \in Procs, Tune(p) \/ Serve(p) PROVE DelayPath'
  BY <1>9 DEF Tune, Serve
<1>10. ASSUME NEW p \in Procs, Load(p) PROVE DelayPath'
  BY <1>10, StartupAssumption DEF Load, Loadable, Good, StartupAssumption
<1>11. ASSUME NEW p \in Procs, Exit(p) \/ Shutdown(p) \/ Crash(p) PROVE DelayPath'
  BY <1>11 DEF Exit, Shutdown, Crash, Gone
<1>12. ASSUME NEW p \in Procs, Fail(p) PROVE DelayPath'
  BY <1>12 DEF Fail
<1> QED BY <1>1, <1>2, <1>3, <1>4, <1>5, <1>6, <1>7, <1>8, <1>9, <1>10, <1>11, <1>12
        DEF Next, Step

\* What the download has looked at stays there, and a step that leaves a file
\* torn or shards missing is either at work or an interruption.
LEMMA WholeStep == ASSUME IInv, Next PROVE Whole'
<1> USE DEF IInv, Typed, Goto, Whole, Fetched
<1>1. CASE SetDelay
  BY <1>1 DEF SetDelay, local
<1>2. CASE Wipe
  BY <1>2, StartupAssumption DEF Wipe, EmptyDir, local, Off, StartupAssumption
<1>3. ASSUME NEW p \in Procs, Start(p) PROVE Whole'
  BY <1>3 DEF Start, Off
<1>4. ASSUME NEW p \in Procs, Check(p) PROVE Whole'
  BY <1>4 DEF Check, Files
<1>5. ASSUME NEW p \in Procs, Fetch(p) PROVE Whole'
  <2>1. host.tekken \in Tekkens /\ host.tekken # None /\ host.tekken # Torn
    BY StartupAssumption DEF StartupAssumption
  <2>2. \A q \in Procs : pc[q] = "download" => q = p
    BY <1>5 DEF Fetch, Downloads, Alone, Off
  <2>3. PICK f \in todo[p] :
          /\ todo' = [todo EXCEPT ![p] = @ \ {f}]
          /\ \/ f = ParamsFile /\ disk' = [disk EXCEPT !.params = TRUE]
             \/ f \in Shards /\ disk' = [disk EXCEPT !.shards = @ \cup {f}]
             \/ f = TekkenFile /\ disk' = [disk EXCEPT !.tekken = host.tekken]
             \/ f = TekkenFile /\ disk.tekken # None /\ UNCHANGED disk
    BY <1>5 DEF Fetch
  <2>4. Fetched(p) /\ pc[p] = "download" /\ UNCHANGED <<pc, cut>>
    BY <1>5 DEF Fetch
  <2>5. Fetched(p)'
    BY <2>1, <2>3, <2>4, FilesDistinct
  <2>6. disk'.tekken = Torn => disk.tekken = Torn
    BY <2>1, <2>3
  <2> QED BY <2>2, <2>4, <2>5, <2>6
<1>6. ASSUME NEW p \in Procs, DownloadDone(p) PROVE Whole'
  <2>1. disk.shards = Shards
    BY <1>6 DEF DownloadDone, Downloaded
  <2> QED BY <1>6, <2>1 DEF DownloadDone
<1>7. ASSUME NEW p \in Procs, ReadTekken(p) \/ Tune(p) \/ Load(p) \/ Serve(p) PROVE Whole'
  <2>1. /\ UNCHANGED <<disk, todo, cut>>
        /\ pc[p] \notin {"download", "write"}
        /\ \A q \in Procs \ {p} : pc'[q] = pc[q]
        /\ pc'[p] # "download"
    BY <1>7 DEF ReadTekken, Tune, Load, Serve
  <2> QED BY <2>1
<1>8. ASSUME NEW p \in Procs, Truncate(p) \/ Write(p) PROVE Whole'
  <2>1. \A q \in Procs : pc[q] # "download" /\ pc'[q] # "download"
    BY <1>8 DEF Truncate, Write, Downloads, Alone, Off
  <2>2. UNCHANGED cut /\ disk'.shards = disk.shards
    BY <1>8 DEF Truncate, Write
  <2>3. disk'.tekken = Torn => pc'[p] = "write"
    BY <1>8, StartupAssumption DEF Truncate, Write, DelayPath, Good, StartupAssumption
  <2> QED BY <2>1, <2>2, <2>3
<1>9. ASSUME NEW p \in Procs, Exit(p) \/ Shutdown(p) PROVE Whole'
  BY <1>9 DEF Exit, Shutdown, Gone
<1>10. ASSUME NEW p \in Procs, Crash(p) \/ Fail(p) PROVE Whole'
  <2>1. /\ UNCHANGED disk /\ cut' = (cut \/ pc[p] \in {"download", "write"})
        /\ \A q \in Procs \ {p} : pc'[q] = pc[q] /\ todo'[q] = todo[q]
        /\ pc'[p] # "download"
    BY <1>10 DEF Crash, Fail, Interrupts, Gone
  <2> QED BY <2>1
<1> QED BY <1>1, <1>2, <1>3, <1>4, <1>5, <1>6, <1>7, <1>8, <1>9, <1>10 DEF Next, Step

\* Choosing the arguments keeps the number of sequences among the settings.
LEMMA SelectedKeepsSeqs ==
  ASSUME NEW v \in Settings, NEW env, NEW gpu
  PROVE  "max_num_seqs" \in DOMAIN Selected(v, env, gpu)
BY DEF Settings, Selected

\* The limit is the number the engine was given.
LEMMA SeqsStep == ASSUME IInv, Next PROVE SeqsPath'
<1> USE DEF IInv, Typed, Goto, SeqsPath
<1>1. CASE SetDelay \/ Wipe
  BY <1>1 DEF SetDelay, Wipe, local
<1>2. ASSUME NEW p \in Procs,
             \/ Start(p) \/ Check(p) \/ Fetch(p) \/ DownloadDone(p) \/ ReadTekken(p)
             \/ Truncate(p) \/ Write(p) \/ Fail(p)
      PROVE  SeqsPath'
  <2>1. /\ UNCHANGED <<tuned, engine, limit, host>>
        /\ \A q \in Procs : pc'[q] \in {"load", "serve", "ready"} => pc'[q] = pc[q]
    BY <1>2 DEF Start, Check, Fetch, DownloadDone, ReadTekken, Truncate, Write, Fail
  <2> QED BY <2>1
<1>3. ASSUME NEW p \in Procs, Tune(p) PROVE SeqsPath'
  <2>1. host.vllm \in Settings
    BY StartupAssumption DEF StartupAssumption
  <2>2. "max_num_seqs" \in DOMAIN Selected(host.vllm, host.env, host.gpu)
    BY <2>1, SelectedKeepsSeqs
  <2>3. "max_num_seqs" \in DOMAIN tuned'[p].vllm
    BY <1>3, <2>2 DEF Tune
  <2> QED BY <1>3, <2>3 DEF Tune
<1>4. ASSUME NEW p \in Procs, Load(p) PROVE SeqsPath'
  <2>1. EngineArgs(tuned[p].vllm, tuned[p].seqs).max_num_seqs = AtLeast(1, tuned[p].seqs)
    BY <1>4 DEF Load, EngineArgs
  <2> QED BY <1>4, <2>1 DEF Load
<1>5. ASSUME NEW p \in Procs, Serve(p) PROVE SeqsPath'
  <2>1. host.limit <= 0
        => MaxConnections(host.limit, TunedSettings(tuned[p].vllm, tuned[p].seqs))
           = AtLeast(1, tuned[p].seqs)
    BY <1>5 DEF Serve, MaxConnections, TunedSettings, AtLeast
  <2> QED BY <1>5, <2>1 DEF Serve
<1>6. ASSUME NEW p \in Procs, Exit(p) \/ Shutdown(p) \/ Crash(p) PROVE SeqsPath'
  BY <1>6 DEF Exit, Shutdown, Crash, Gone
<1> QED BY <1>1, <1>2, <1>3, <1>4, <1>5, <1>6 DEF Next, Step

LEMMA IInvStep == IInv /\ [Next]_vars => IInv'
<1> SUFFICES ASSUME IInv, [Next]_vars PROVE IInv'
  OBVIOUS
<1>1. CASE Next
  BY <1>1, TypedStep, DownloadsStep, DelayStep, WholeStep, SeqsStep DEF IInv
<1>2. CASE UNCHANGED vars
  BY <1>2 DEF vars, local, IInv, Typed, Downloads, DelayPath, Whole, SeqsPath, Alone, Off,
              Complete, Good, Fetched
<1> QED BY <1>1, <1>2

LEMMA IInvAlways == Spec => []IInv
BY InitOK, IInvStep, PTL DEF Spec

\* A running engine has read the configured delay, for any number of replicas,
\* any delays and documents, and any crashes and failures (model.py:27-63).
THEOREM EngineHasDelayAlways == Spec => []EngineHasDelay
<1>1. IInv => EngineHasDelay
  BY DEF IInv, Typed, DelayPath, Good, EngineHasDelay, Running
<1> QED BY <1>1, IInvAlways, PTL

\* A directory from which no start succeeds and none downloads again is only
\* left by an interrupted download or rewrite (model.py:62, :66-72).
THEOREM BrickedOnlyIfCutAlways == Spec => []BrickedOnlyIfCut
<1>1. IInv => BrickedOnlyIfCut
  <2> SUFFICES ASSUME IInv, Bricked PROVE cut
    BY DEF BrickedOnlyIfCut
  <2>1. disk.tekken = Torn \/ disk.shards \notin {{}, Shards}
    BY DEF Bricked, LooksLikeSnapshot, Loadable, IInv, Typed
  <2>2. \A p \in Procs : pc[p] \notin {"download", "write"}
    BY DEF Bricked
  <2> QED BY <2>1, <2>2 DEF IInv, Whole
<1> QED BY <1>1, IInvAlways, PTL

\* With an automatic limit as many connections are admitted as the engine runs
\* sequences, whatever was tuned (dependencies.py:30-45, vllm.py:281-344).
THEOREM LimitMatchesEngineAlways == Spec => []LimitMatchesEngine
<1>1. IInv => LimitMatchesEngine
  BY DEF IInv, SeqsPath, LimitMatchesEngine
<1> QED BY <1>1, IInvAlways, PTL
-----------------------------------------------------------------------------
(* Tuning: what the caches of the chosen sequences take.                     *)

LEMMA DivFacts ==
  ASSUME NEW a \in Int, NEW b \in Nat \ {0}
  PROVE  a \div b \in Int /\ (a \div b) * b <= a /\ a < (a \div b) * b + b
OBVIOUS

LEMMA ProductFacts ==
  ASSUME NEW a \in Nat, NEW b \in Nat, NEW c \in Nat, b <= c
  PROVE  a * b \in Nat /\ a * c \in Nat /\ a * b <= a * c
<1>1. \E d \in Nat : c = b + d
  <2>1. c - b \in Nat /\ c = b + (c - b)
    OBVIOUS
  <2> QED BY <2>1
<1>2. PICK d \in Nat : c = b + d
  BY <1>1
<1>3. a * (b + d) = a * b + a * d /\ a * b \in Nat /\ a * d \in Nat
  OBVIOUS
<1> QED BY <1>2, <1>3

\* A percentage of an amount is within the amount.
LEMMA PercentFacts ==
  ASSUME NEW a \in Nat, NEW k \in 0..100
  PROVE  (a * k) \div 100 \in Nat /\ (a * k) \div 100 <= a /\ 100 * ((a * k) \div 100) <= a * k
<1> DEFINE m == a * k
           q == m \div 100
<1>1. m \in Nat /\ m <= a * 100
  BY ProductFacts
<1> HIDE DEF m
<1>2. q \in Int /\ q * 100 <= m /\ m < q * 100 + 100
  BY <1>1, DivFacts
<1> HIDE DEF q
<1>3. q \in Nat /\ q <= a /\ 100 * q <= m
  BY <1>1, <1>2
<1> QED BY <1>3 DEF q, m

\* The keys of params.json that are read.
Aliases ==
  {"dim", "hidden_size", "d_model", "n_layers", "num_hidden_layers", "num_layers",
   "n_kv_heads", "num_key_value_heads", "head_dim", "kv_head_dim", "sliding_window"}

\* The settings as selected: those of the operator, or an "auto" data type.
Chosen ==
  [max_num_seqs : Int, max_num_batched_tokens : Int, max_model_len : Int,
   gpu_memory_utilization : Nat, kv_cache_dtype : STRING \cup {"auto"},
   calculate_kv_scales : BOOLEAN]

Numbers(params) == \A k \in DOMAIN params : params[k] \in Int

LEMMA FieldIsInt ==
  ASSUME NEW params, Numbers(params), NEW aliases \in Seq(Aliases)
  PROVE  Field(params, aliases) \in Int
<1> DEFINE present == {i \in DOMAIN aliases : aliases[i] \in DOMAIN params}
           first == CHOOSE i \in present : \A j \in present : i <= j
<1>1. present \subseteq Nat
  BY LenProperties
<1>2. CASE present = {}
  BY <1>2 DEF Field
<1>3. CASE present # {}
  <2>1. \E i \in present : \A j \in present : i <= j
    <3> HIDE DEF present
    <3> QED BY <1>1, <1>3, LeastNat
  <2>2. first \in present
    <3> HIDE DEF present
    <3> QED BY <2>1
  <2>3. params[aliases[first]] \in Int
    BY <2>2 DEF Numbers
  <2>4. Field(params, aliases) = params[aliases[first]]
    BY <1>3 DEF Field
  <2> QED BY <2>3, <2>4
<1> QED BY <1>2, <1>3

LEMMA ShortSequences ==
  ASSUME NEW S, NEW a \in S, NEW b \in S, NEW c \in S
  PROVE  <<a>> \in Seq(S) /\ <<a, b>> \in Seq(S) /\ <<a, b, c>> \in Seq(S)
OBVIOUS

LEMMA ArchIsInt ==
  ASSUME NEW params, Numbers(params)
  PROVE  /\ Arch(params).dim \in Int /\ Arch(params).n_layers \in Int /\ Arch(params).n_kv_heads \in Int
         /\ Arch(params).head_dim \in Int /\ Arch(params).sliding_window \in Int
<1>1. /\ <<"dim", "hidden_size", "d_model">> \in Seq(Aliases)
      /\ <<"n_layers", "num_hidden_layers", "num_layers">> \in Seq(Aliases)
      /\ <<"n_kv_heads", "num_key_value_heads">> \in Seq(Aliases)
      /\ <<"head_dim", "kv_head_dim">> \in Seq(Aliases)
      /\ <<"sliding_window">> \in Seq(Aliases)
  <2>1. <<"dim", "hidden_size", "d_model">> \in Seq(Aliases)
    BY ShortSequences DEF Aliases
  <2>2. <<"n_layers", "num_hidden_layers", "num_layers">> \in Seq(Aliases)
    BY ShortSequences DEF Aliases
  <2>3. <<"n_kv_heads", "num_key_value_heads">> \in Seq(Aliases)
    BY ShortSequences DEF Aliases
  <2>4. <<"head_dim", "kv_head_dim">> \in Seq(Aliases)
    BY ShortSequences DEF Aliases
  <2>5. <<"sliding_window">> \in Seq(Aliases)
    BY ShortSequences DEF Aliases
  <2> QED BY <2>1, <2>2, <2>3, <2>4, <2>5
<1>2. /\ Field(params, <<"dim", "hidden_size", "d_model">>) \in Int
      /\ Field(params, <<"n_layers", "num_hidden_layers", "num_layers">>) \in Int
      /\ Field(params, <<"n_kv_heads", "num_key_value_heads">>) \in Int
      /\ Field(params, <<"head_dim", "kv_head_dim">>) \in Int
      /\ Field(params, <<"sliding_window">>) \in Int
  BY <1>1, FieldIsInt
<1> QED BY <1>2 DEF Arch

LEMMA PerTokenIsNat ==
  ASSUME NEW params, Numbers(params), NEW dtype
  PROVE  PerTokenBytes(Arch(params), dtype) \in Nat
<1> DEFINE arch == Arch(params)
           l == AtLeast(0, arch.n_layers)
           e == KvBytesPerElement(dtype)
           k == IF arch.n_kv_heads > 0 /\ arch.head_dim > 0
                THEN arch.n_kv_heads * arch.head_dim ELSE AtLeast(0, arch.dim)
<1>1. /\ arch.dim \in Int /\ arch.n_layers \in Int /\ arch.n_kv_heads \in Int
      /\ arch.head_dim \in Int
  BY ArchIsInt
<1> HIDE DEF arch
<1>2. l \in Nat /\ e \in Nat
  BY <1>1 DEF AtLeast, KvBytesPerElement
<1>3. k \in Nat
  <2>1. CASE arch.n_kv_heads > 0 /\ arch.head_dim > 0
    <3>1. arch.n_kv_heads \in Nat /\ arch.head_dim \in Nat
      BY <1>1, <2>1
    <3>2. arch.n_kv_heads * arch.head_dim \in Nat
      BY <3>1, ProductFacts
    <3> QED BY <2>1, <3>2
  <2>2. CASE ~(arch.n_kv_heads > 0 /\ arch.head_dim > 0)
    BY <1>1, <2>2 DEF AtLeast
  <2> QED BY <2>1, <2>2
<1>4. PerTokenBytes(Arch(params), dtype) = 2 * l * e * k
  BY DEF PerTokenBytes, arch
<1> HIDE DEF l, e, k
<1>5. 2 * l \in Nat
  BY <1>2
<1>6. (2 * l) * e \in Nat
  BY <1>2, <1>5, ProductFacts
<1>7. (2 * l * e) * k \in Nat
  BY <1>3, <1>6, ProductFacts
<1> QED BY <1>4, <1>7

\* The tokens counted for a sequence are no fewer than those vLLM keeps.
LEMMA KeptWithinCounted ==
  ASSUME NEW v \in Chosen, NEW arch, arch.sliding_window \in Int
  PROVE  /\ KeptTokens(v, arch.sliding_window) \in Nat
         /\ KvTokens(v, arch) \in Nat
         /\ KeptTokens(v, arch.sliding_window) <= KvTokens(v, arch)
<1> DEFINE n == v.max_model_len
           b == v.max_num_batched_tokens
           w == arch.sliding_window
           T == {t \in 1..n : w > 0 => t < w + b}
           top == IF w > 0 /\ w + b - 1 < n THEN w + b - 1 ELSE n
<1>1. n \in Int /\ b \in Int /\ w \in Int
  BY DEF Chosen
<1>2. KeptTokens(v, w) = Cardinality(T)
  BY DEF KeptTokens
<1>3. KvTokens(v, arch) =
        IF w > 0 THEN AtMost(AtLeast(1, n), AtLeast(1, w - 1 + AtLeast(1, b))) ELSE AtLeast(1, n)
  BY DEF KvTokens
<1> HIDE DEF n, b, w
<1>4. T = 1..top /\ top \in Int
  BY <1>1
<1>5. Cardinality(1..top) = IF 1 > top THEN 0 ELSE top
  <2>1. 1 \in Int /\ top \in Int
    BY <1>4
  <2> HIDE DEF top
  <2>2. Cardinality(1..top) = IF 1 > top THEN 0 ELSE top - 1 + 1
    BY <2>1, FS_Interval
  <2> QED BY <2>1, <2>2
<1> HIDE DEF T
<1>6. KeptTokens(v, w) = IF 1 > top THEN 0 ELSE top
  BY <1>2, <1>4, <1>5
<1>7. KeptTokens(v, w) \in Nat /\ KvTokens(v, arch) \in Nat
  BY <1>1, <1>3, <1>6 DEF AtLeast, AtMost
<1>8. KeptTokens(v, w) <= KvTokens(v, arch)
  BY <1>1, <1>3, <1>6 DEF AtLeast, AtMost
<1> QED BY <1>7, <1>8 DEF w

LEMMA SelectedIsChosen ==
  ASSUME NEW v \in Settings, NEW env, NEW gpu
  PROVE  Selected(v, env, gpu) \in Chosen /\ Selected(v, env, gpu).max_num_seqs = v.max_num_seqs
<1> DEFINE dtype == SelectKvCacheDtype(v, env)
           scales == SelectCalculateKvScales(v, env, dtype)
           batched == SelectMaxNumBatchedTokens(v, gpu)
<1>1. dtype \in STRING \cup {"auto"}
  BY DEF SelectKvCacheDtype, Settings
<1>2. scales \in BOOLEAN
  <2> HIDE DEF dtype
  <2>1. v.calculate_kv_scales \in BOOLEAN /\ (dtype \in Fp8) \in BOOLEAN
    BY DEF Settings
  <2>2. scales = v.calculate_kv_scales \/ scales = (dtype \in Fp8)
    BY DEF SelectCalculateKvScales
  <2> HIDE DEF scales
  <2> QED BY <2>1, <2>2, Zenon
<1>3. batched \in Int
  BY DEF SelectMaxNumBatchedTokens, BatchedTokensFor, Settings
<1>4. Selected(v, env, gpu) = [v EXCEPT !.kv_cache_dtype = dtype, !.calculate_kv_scales = scales,
                                        !.max_num_batched_tokens = batched]
  BY DEF Selected
<1> HIDE DEF dtype, scales, batched
<1> QED BY <1>1, <1>2, <1>3, <1>4 DEF Chosen, Settings

\* The budget for caches is within what the weights leave of vLLM's share.
LEMMA BudgetFacts ==
  ASSUME NEW v \in Chosen, v.gpu_memory_utilization \in Nat, NEW vram \in Nat, NEW weights \in Nat
  PROVE  /\ Budget(v, vram, weights) \in Nat
         /\ Budget(v, vram, weights) > 0 =>
              100 * (weights + Budget(v, vram, weights)) <= vram * v.gpu_memory_utilization
<1> DEFINE m == vram * v.gpu_memory_utilization
           share == m \div 100
           left == AtLeast(0, share - weights)
           b == (left * KvBudgetPercent) \div 100
<1>1. m \in Nat
  BY ProductFacts
<1>2. Budget(v, vram, weights) = b
  BY DEF Budget
<1> HIDE DEF m
<1>3. share \in Int /\ share * 100 <= m
  BY <1>1, DivFacts
<1> HIDE DEF share
<1>4. left \in Nat /\ (left > 0 => weights + left <= share)
  BY <1>3 DEF AtLeast
<1> HIDE DEF left
<1>5. KvBudgetPercent \in 0..100
  BY TuningAssumption DEF TuningAssumption
<1>6. b \in Nat /\ b <= left
  BY <1>4, <1>5, PercentFacts
<1> HIDE DEF b
<1>7. b > 0 => 100 * (weights + b) <= m
  BY <1>1, <1>3, <1>4, <1>6
<1> QED BY <1>2, <1>6, <1>7 DEF m

\* An estimate is at least one sequence, and the caches of an estimate of more
\* than one are within the budget.
LEMMA EstimateFacts ==
  ASSUME NEW v \in Chosen, NEW vram \in Nat, NEW params, Numbers(params), NEW weights \in Nat
  PROVE  LET n == EstimateMaxNumSeqs(v, vram, params, weights) IN
         /\ n \in Nat
         /\ n > 1 => /\ PerSeqBytes(v, params) \in Nat /\ Budget(v, vram, weights) \in Nat
                     /\ Budget(v, vram, weights) > 0
                     /\ n * PerSeqBytes(v, params) <= Budget(v, vram, weights)
<1> DEFINE n == EstimateMaxNumSeqs(v, vram, params, weights)
           s == PerSeqBytes(v, params)
           b == Budget(v, vram, weights)
           q == b \div s
<1>1. v.gpu_memory_utilization \in Nat /\ v.max_model_len \in Int /\ v.max_num_batched_tokens \in Int
  BY DEF Chosen
<1>2. b \in Nat
  BY <1>1, BudgetFacts
<1>3. s \in Nat
  <2>1. Arch(params).sliding_window \in Int
    BY ArchIsInt
  <2>2. KvTokens(v, Arch(params)) \in Nat
    BY <2>1, KeptWithinCounted
  <2>3. PerTokenBytes(Arch(params), v.kv_cache_dtype) \in Nat
    BY PerTokenIsNat
  <2> QED BY <2>2, <2>3, ProductFacts DEF PerSeqBytes
<1>4. n = IF vram = 0 \/ s <= 0 \/ b <= 0 THEN 0 ELSE AtMost(MaxNumSeqsCap, AtLeast(1, q))
  BY DEF EstimateMaxNumSeqs, NoEstimate
<1> HIDE DEF n, s, b
<1>5. CASE vram = 0 \/ s <= 0 \/ b <= 0
  BY <1>4, <1>5 DEF n
<1>6. CASE ~(vram = 0 \/ s <= 0 \/ b <= 0)
  <2>1. s \in Nat \ {0} /\ b > 0
    BY <1>2, <1>3, <1>6
  <2>2. q \in Int /\ q * s <= b
    BY <1>2, <2>1, DivFacts
  <2> HIDE DEF q
  <2>3. MaxNumSeqsCap \in Nat \ {0}
    BY TuningAssumption DEF TuningAssumption
  <2>4. n \in Nat /\ (n > 1 => n <= q)
    BY <1>4, <1>6, <2>2, <2>3 DEF AtMost, AtLeast
  <2>5. ASSUME n > 1 PROVE n * s <= b
    <3>1. n <= q /\ q \in Nat
      BY <2>2, <2>4, <2>5
    <3>2. s * n <= s * q /\ s * n \in Nat /\ s * q \in Nat
      BY <1>3, <2>4, <3>1, ProductFacts
    <3>3. s * n = n * s /\ s * q = q * s
      BY <1>3, <2>4, <3>1
    <3> DEFINE x == s * n
               y == s * q
    <3>4. x \in Nat /\ y \in Nat /\ x <= y /\ y <= b
      BY <2>2, <3>2, <3>3
    <3> HIDE DEF x, y
    <3>5. x <= b
      BY <1>2, <3>4
    <3> QED BY <3>3, <3>5 DEF x
  <2> QED BY <1>2, <1>3, <2>1, <2>4, <2>5 DEF n, s, b
<1> QED BY <1>5, <1>6

LEMMA TunedIsInt ==
  ASSUME NEW v \in Chosen, NEW env, NEW vram \in Nat, NEW params, Numbers(params), NEW weights \in Nat
  PROVE  TuneMaxNumSeqs(v, env, vram, params, weights) \in Int
<1>1. EstimateMaxNumSeqs(v, vram, params, weights) \in Nat
  BY EstimateFacts
<1>2. v.max_num_seqs \in Int
  BY DEF Chosen
<1> QED BY <1>1, <1>2 DEF TuneMaxNumSeqs

\* The caches of the sequences the engine is given fit beside the weights,
\* when the server chose their number and it is not the one it must allow.
LEMMA CachesFit ==
  ASSUME NEW v \in Chosen, NEW env, NEW vram \in Nat, NEW params, Numbers(params), NEW weights \in Nat
  PROVE  LET a      == EngineArgs(v, TuneMaxNumSeqs(v, env, vram, params, weights))
             perSeq == PerTokenBytes(Arch(params), a.kv_cache_dtype)
                         * KeptTokens(a, Arch(params).sliding_window)
         IN a.max_num_seqs \notin {1, v.max_num_seqs}
            => 100 * (weights + a.max_num_seqs * perSeq) <= vram * a.gpu_memory_utilization
<1> DEFINE seqs == TuneMaxNumSeqs(v, env, vram, params, weights)
           n == EstimateMaxNumSeqs(v, vram, params, weights)
           a == EngineArgs(v, seqs)
           t == PerTokenBytes(Arch(params), v.kv_cache_dtype)
           k == KeptTokens(v, Arch(params).sliding_window)
           c == KvTokens(v, Arch(params))
           b == Budget(v, vram, weights)
           m == vram * v.gpu_memory_utilization
<1>1. /\ a.max_num_seqs = AtLeast(1, seqs) /\ a.kv_cache_dtype = v.kv_cache_dtype
      /\ a.gpu_memory_utilization = v.gpu_memory_utilization
      /\ a.max_model_len = v.max_model_len /\ a.max_num_batched_tokens = v.max_num_batched_tokens
  BY DEF EngineArgs, Chosen
<1>2. KeptTokens(a, Arch(params).sliding_window) = k
  <2> HIDE DEF a
  <2> QED BY <1>1 DEF KeptTokens
<1>3. v.max_num_seqs \in Int /\ v.gpu_memory_utilization \in Nat /\ Arch(params).sliding_window \in Int
  BY ArchIsInt DEF Chosen
<1>4. k \in Nat /\ c \in Nat /\ k <= c
  BY <1>3, KeptWithinCounted
<1>5. t \in Nat
  BY PerTokenIsNat
<1>6. PerSeqBytes(v, params) = t * c
  BY DEF PerSeqBytes
<1>7. n \in Nat /\ (n > 1 => b \in Nat /\ b > 0 /\ n * (t * c) <= b)
  <2> HIDE DEF t, c
  <2> QED BY <1>6, EstimateFacts
<1>8. b > 0 => 100 * (weights + b) <= m
  BY <1>3, BudgetFacts
<1>9. seqs = v.max_num_seqs \/ (seqs = n /\ n # 0)
  BY DEF TuneMaxNumSeqs, NoEstimate
<1>10. m \in Nat
  BY <1>3, ProductFacts
<1> HIDE DEF a, seqs, n, t, k, c, b, m
<1>11. ASSUME a.max_num_seqs \notin {1, v.max_num_seqs}
       PROVE  100 * (weights + a.max_num_seqs * (t * k)) <= m
  <2>1. n > 1 /\ a.max_num_seqs = n
    BY <1>1, <1>3, <1>7, <1>9, <1>11 DEF AtLeast
  <2>2. t * k <= t * c /\ t * k \in Nat /\ t * c \in Nat
    BY <1>4, <1>5, ProductFacts
  <2>3. n * (t * k) <= n * (t * c) /\ n * (t * k) \in Nat /\ n * (t * c) \in Nat
    <3> DEFINE x == t * k
               y == t * c
    <3>1. x \in Nat /\ y \in Nat /\ x <= y
      BY <2>2
    <3> HIDE DEF x, y
    <3>2. n * x <= n * y /\ n * x \in Nat /\ n * y \in Nat
      BY <1>7, <3>1, ProductFacts
    <3> QED BY <3>2 DEF x, y
  <2> DEFINE x == n * (t * k)
             y == n * (t * c)
  <2>4. x \in Nat /\ y \in Nat /\ x <= y /\ y <= b /\ b \in Nat /\ b > 0
    BY <1>7, <2>1, <2>3
  <2>5. 100 * (weights + b) <= m
    BY <1>8, <2>4
  <2> HIDE DEF x, y
  <2>6. 100 * (weights + x) <= m
    BY <1>10, <2>4, <2>5
  <2> QED BY <2>1, <2>6 DEF x
<1> QED BY <1>1, <1>2, <1>11 DEF a, seqs, t, m
-----------------------------------------------------------------------------
(* How the arguments get from the directory to the engine. What is summed at *)
(* the tuning is what the engine finds: nobody adds a shard in between.      *)

TunedFor(h, shards) ==
  LET v == Selected(h.vllm, h.env, h.gpu)
  IN [vllm |-> v, seqs |-> TuneMaxNumSeqs(v, h.env, h.vram, h.doc, Weights(shards))]

ArgsFor(h) == EngineArgs(TunedFor(h, Shards).vllm, TunedFor(h, Shards).seqs)

ArgsPath ==
  \A p \in Procs :
    /\ pc[p] \in {"read", "truncate", "write", "tune", "load"} => disk.params
    /\ pc[p] = "load" => tuned[p] = TunedFor(host, disk.shards)
    /\ pc[p] \in {"serve", "ready"} => tuned[p] = TunedFor(host, Shards)
    /\ engine[p] # None => engine[p].args = ArgsFor(host)

\* The rest of TypeOK.
Counted ==
  /\ doc \in [Procs -> Tekkens \cup {None}] /\ limit \in [Procs -> Nat] /\ faults \in 0..MaxFaults

AInv == IInv /\ ArgsPath /\ Counted

LEMMA ArgsInit == Init => ArgsPath /\ Counted
<1> SUFFICES ASSUME Init PROVE ArgsPath /\ Counted
  OBVIOUS
<1>1. MaxFaults \in Nat
  BY StartupAssumption DEF StartupAssumption
<1> QED BY <1>1 DEF Init, ArgsPath, Counted

LEMMA ArgsStep == ASSUME IInv, ArgsPath, Next PROVE ArgsPath'
<1> USE DEF IInv, Typed, Goto, ArgsPath
<1>1. CASE SetDelay
  BY <1>1 DEF SetDelay, local
<1>2. CASE Wipe
  BY <1>2 DEF Wipe, local, Off, DelayPath
<1>3. ASSUME NEW p \in Procs, Start(p) PROVE ArgsPath'
  BY <1>3 DEF Start
<1>4. ASSUME NEW p \in Procs, Check(p) PROVE ArgsPath'
  BY <1>4 DEF Check, LooksLikeSnapshot
<1>5. ASSUME NEW p \in Procs, Fetch(p) PROVE ArgsPath'
  <2>1. \A q \in Procs : pc[q] \in {"off", "download"}
    BY <1>5 DEF Fetch, Downloads, Alone, Off
  <2>2. UNCHANGED <<host, pc, tuned, engine>>
    BY <1>5 DEF Fetch
  <2> QED BY <2>1, <2>2
<1>6. ASSUME NEW p \in Procs, DownloadDone(p) PROVE ArgsPath'
  <2>1. disk.params
    BY <1>6 DEF DownloadDone, Downloaded, Whole, Fetched
  <2> QED BY <1>6, <2>1 DEF DownloadDone
<1>7. ASSUME NEW p \in Procs, ReadTekken(p) PROVE ArgsPath'
  <2>1. /\ UNCHANGED <<host, disk, tuned, engine>> /\ pc[p] = "read"
        /\ pc' = [pc EXCEPT ![p] = "failed"] \/ pc' = [pc EXCEPT ![p] = "tune"]
           \/ pc' = [pc EXCEPT ![p] = "truncate"]
    BY <1>7 DEF ReadTekken
  <2> QED BY <2>1
<1>8. ASSUME NEW p \in Procs, Truncate(p) \/ Write(p) PROVE ArgsPath'
  <2>1. /\ UNCHANGED <<host, tuned, engine>> /\ pc[p] \in {"truncate", "write"}
        /\ pc' = [pc EXCEPT ![p] = "write"] \/ pc' = [pc EXCEPT ![p] = "tune"]
        /\ disk'.params = disk.params /\ disk'.shards = disk.shards
    BY <1>8 DEF Truncate, Write
  <2> QED BY <2>1
<1>9. ASSUME NEW p \in Procs, Tune(p) PROVE ArgsPath'
  <2>1. disk.params /\ ParamsDoc = host.doc
    BY <1>9 DEF Tune, ParamsDoc
  <2>2. tuned' = [tuned EXCEPT ![p] = TunedFor(host, disk.shards)]
    BY <1>9, <2>1 DEF Tune, TunedFor
  <2>3. pc' = [pc EXCEPT ![p] = "load"] /\ pc[p] = "tune" /\ UNCHANGED <<host, disk, engine>>
    BY <1>9 DEF Tune
  <2> QED BY <2>1, <2>2, <2>3
<1>10. ASSUME NEW p \in Procs, Load(p) PROVE ArgsPath'
  <2>1. CASE Loadable
    <3>1. tuned[p] = TunedFor(host, Shards)
      BY <1>10, <2>1 DEF Load, Loadable
    <3>2. engine' = [engine EXCEPT ![p] = [tekken |-> disk.tekken, args |-> ArgsFor(host)]]
      BY <1>10, <2>1, <3>1 DEF Load, ArgsFor
    <3>3. pc' = [pc EXCEPT ![p] = "serve"] /\ UNCHANGED <<host, disk, tuned>>
      BY <1>10, <2>1 DEF Load
    <3> QED BY <3>1, <3>2, <3>3
  <2>2. CASE ~Loadable
    BY <1>10, <2>2 DEF Load
  <2> QED BY <2>1, <2>2
<1>11. ASSUME NEW p \in Procs, Serve(p) PROVE ArgsPath'
  BY <1>11 DEF Serve
<1>12. ASSUME NEW p \in Procs, Exit(p) \/ Shutdown(p) \/ Crash(p) PROVE ArgsPath'
  BY <1>12 DEF Exit, Shutdown, Crash, Gone
<1>13. ASSUME NEW p \in Procs, Fail(p) PROVE ArgsPath'
  BY <1>13 DEF Fail
<1> QED BY <1>1, <1>2, <1>3, <1>4, <1>5, <1>6, <1>7, <1>8, <1>9, <1>10, <1>11, <1>12, <1>13
        DEF Next, Step

\* The weights found are a number of bytes.
LEMMA WeightsAreNat ==
  ASSUME NEW s \in SUBSET Shards
  PROVE  Weights(s) \in Nat
<1>1. IsFiniteSet(s) /\ \A x \in s : ShardBytes[x] \in Nat
  BY StartupAssumption, FS_Subset DEF StartupAssumption
<1> QED BY <1>1, SumIsNat DEF Weights

LEMMA HostFacts ==
  ASSUME NEW h \in Hosts
  PROVE  /\ h.vllm \in Settings /\ h.vram \in Nat /\ h.limit \in Int /\ Numbers(h.doc)
         /\ Selected(h.vllm, h.env, h.gpu) \in Chosen
         /\ Selected(h.vllm, h.env, h.gpu).max_num_seqs = h.vllm.max_num_seqs
<1>1. h.vllm \in Settings /\ h.vram \in Nat /\ h.limit \in Int /\ Numbers(h.doc)
  BY StartupAssumption DEF StartupAssumption, Numbers
<1> QED BY <1>1, SelectedIsChosen

LEMMA TunedForIsInt ==
  ASSUME NEW h \in Hosts
  PROVE  TunedFor(h, Shards).seqs \in Int /\ TunedFor(h, Shards).vllm \in Chosen
<1> DEFINE v == Selected(h.vllm, h.env, h.gpu)
<1>1. v \in Chosen /\ h.vram \in Nat /\ Numbers(h.doc)
  BY HostFacts
<1>2. Weights(Shards) \in Nat
  BY WeightsAreNat
<1>3. TunedFor(h, Shards).seqs = TuneMaxNumSeqs(v, h.env, h.vram, h.doc, Weights(Shards))
      /\ TunedFor(h, Shards).vllm = v
  BY DEF TunedFor
<1> HIDE DEF v
<1> QED BY <1>1, <1>2, <1>3, TunedIsInt

LEMMA CountedStep == ASSUME AInv, Next PROVE Counted'
<1> USE DEF AInv, IInv, Typed, Counted, Goto
<1>1. CASE SetDelay
  BY <1>1 DEF SetDelay, local
<1>2. CASE Wipe
  BY <1>2, StartupAssumption DEF Wipe, local, StartupAssumption
<1>3. ASSUME NEW p \in Procs, Start(p) \/ Check(p) \/ Fetch(p) \/ DownloadDone(p) \/ Truncate(p)
                              \/ Write(p) \/ Tune(p) \/ Load(p)
      PROVE  Counted'
  <2>1. UNCHANGED <<doc, limit, faults>>
    BY <1>3 DEF Start, Check, Fetch, DownloadDone, Truncate, Write, Tune, Load
  <2> QED BY <2>1
<1>4. ASSUME NEW p \in Procs, ReadTekken(p) PROVE Counted'
  <2>1. doc' = doc \/ (doc' = [doc EXCEPT ![p] = Patched(disk.tekken, wanted)]
                       /\ disk.tekken \in Tekkens)
    BY <1>4 DEF ReadTekken, Unreadable
  <2>2. disk.tekken \in Tekkens => Patched(disk.tekken, wanted) \in Tekkens
    BY PatchedIsGood
  <2>3. UNCHANGED <<limit, faults>>
    BY <1>4 DEF ReadTekken
  <2> QED BY <2>1, <2>2, <2>3
<1>5. ASSUME NEW p \in Procs, Serve(p) PROVE Counted'
  <2>1. tuned[p].seqs \in Int /\ tuned[p].vllm \in Chosen /\ host.limit \in Int
    <3>1. tuned[p] = TunedFor(host, Shards)
      BY <1>5 DEF Serve, ArgsPath
    <3> QED BY <3>1, TunedForIsInt, HostFacts
  <2>2. TunedSettings(tuned[p].vllm, tuned[p].seqs).max_num_seqs = tuned[p].seqs
    BY <2>1 DEF TunedSettings, Chosen
  <2>3. MaxConnections(host.limit, TunedSettings(tuned[p].vllm, tuned[p].seqs)) \in Nat
    BY <2>1, <2>2 DEF MaxConnections, AtLeast
  <2> QED BY <1>5, <2>3 DEF Serve
<1>6. ASSUME NEW p \in Procs, Exit(p) \/ Shutdown(p) PROVE Counted'
  BY <1>6 DEF Exit, Shutdown, Gone
<1>7. ASSUME NEW p \in Procs, Fail(p) PROVE Counted'
  BY <1>7, StartupAssumption DEF Fail, StartupAssumption
<1>8. ASSUME NEW p \in Procs, Crash(p) PROVE Counted'
  BY <1>8, StartupAssumption DEF Crash, Gone, StartupAssumption
<1> QED BY <1>1, <1>2, <1>3, <1>4, <1>5, <1>6, <1>7, <1>8 DEF Next, Step

LEMMA AInvAlways == Spec => []AInv
<1>1. Init => AInv
  BY InitOK, ArgsInit DEF AInv
<1>2. AInv /\ [Next]_vars => AInv'
  <2> SUFFICES ASSUME AInv, [Next]_vars PROVE AInv'
    OBVIOUS
  <2>1. IInv'
    BY IInvStep DEF AInv
  <2>2. CASE Next
    BY <2>1, <2>2, ArgsStep, CountedStep DEF AInv
  <2>3. CASE UNCHANGED vars
    BY <2>1, <2>3 DEF AInv, ArgsPath, Counted, vars, local
  <2> QED BY <2>2, <2>3
<1> QED BY <1>1, <1>2, PTL DEF Spec

\* Every variable keeps its type: tekken.json is one of the documents considered,
\* missing or torn, a process that rewrites it has a document at hand, and a limit
\* of connections is a natural number (model.py:27-63, dependencies.py:30-45).
THEOREM StartupTypeCorrect == Spec => []TypeOK
<1>1. AInv => TypeOK
  BY DEF AInv, IInv, Typed, Counted, DelayPath, Good, TypeOK
<1> QED BY <1>1, AInvAlways, PTL

\* The caches of the sequences the server chose fit beside the real weights in
\* vLLM's share of the memory, for every model, GPU and setting, although the
\* weights are summed before the engine reads them (vllm.py:214-264).
THEOREM KvFitsAlways == Spec => []KvFits
<1>1. AInv => KvFits
  <2> SUFFICES ASSUME AInv, NEW p \in Procs, Running(p)
      PROVE  LET a      == engine[p].args
                 arch   == Arch(host.doc)
                 perSeq == PerTokenBytes(arch, a.kv_cache_dtype) * KeptTokens(a, arch.sliding_window)
             IN a.max_num_seqs \notin {1, host.vllm.max_num_seqs}
                => 100 * (Weights(Shards) + a.max_num_seqs * perSeq)
                   <= host.vram * a.gpu_memory_utilization
    BY DEF KvFits
  <2> DEFINE v == Selected(host.vllm, host.env, host.gpu)
             w == Weights(Shards)
  <2>1. engine[p].args = EngineArgs(v, TuneMaxNumSeqs(v, host.env, host.vram, host.doc, w))
    BY DEF AInv, ArgsPath, Running, ArgsFor, TunedFor
  <2>2. /\ v \in Chosen /\ host.vram \in Nat /\ Numbers(host.doc)
        /\ v.max_num_seqs = host.vllm.max_num_seqs
    BY HostFacts DEF AInv, IInv, Typed
  <2>3. w \in Nat
    BY WeightsAreNat
  <2> HIDE DEF v, w
  <2> QED BY <2>1, <2>2, <2>3, CachesFit DEF w
<1> QED BY <1>1, AInvAlways, PTL
=============================================================================
