---------------------------- MODULE EngineTuning ----------------------------
(***************************************************************************)
(* What build_vllm_realtime passes to vLLM: pure functions of the settings *)
(* (a record v with the fields of VllmSettings that matter here), of the   *)
(* environment variables the operator has set (env), and of the host: its  *)
(* GPU, its memory, the params.json and the weights in the model           *)
(* directory. Memory is in bytes, fractions are percentages.               *)
(***************************************************************************)
EXTENDS Integers, Sequences

CONSTANTS
  KvBudgetPercent, \* TUNING_KV_BUDGET_FRACTION
  MaxNumSeqsCap    \* TUNING_MAX_NUM_SEQS_CAP

ASSUME TuningAssumption == KvBudgetPercent \in 0..100 /\ MaxNumSeqsCap \in Nat \ {0}

Settings ==
  [max_num_seqs : Int, max_num_batched_tokens : Int, max_model_len : Int,
   gpu_memory_utilization : Nat, kv_cache_dtype : STRING, calculate_kv_scales : BOOLEAN]

AtLeast(low, n) == IF n < low THEN low ELSE n
AtMost(high, n) == IF n > high THEN high ELSE n

\* Python's None for an estimate, which is otherwise at least 1.
NoEstimate == 0
-----------------------------------------------------------------------------
(* Selections by environment and GPU.                                        *)

Fp8 == {"fp8", "fp8_e4m3", "fp8_e4m3fn", "fp8_e5m2"}

\* fp8 is refused. (The renaming of fp8_e4m3fn is never reached.)
SelectKvCacheDtype(v, env) ==
  IF "VLLM_KV_CACHE_DTYPE" \in env /\ v.kv_cache_dtype \notin Fp8 THEN v.kv_cache_dtype ELSE "auto"

SelectCalculateKvScales(v, env, dtype) ==
  IF "VLLM_CALCULATE_KV_SCALES" \in env THEN v.calculate_kv_scales ELSE dtype \in Fp8

\* A GPU name is the set of the marks that occur in it.
BatchedTokensFor(marks) ==
  IF \/ marks \cap {"H100", "B200"} # {}
     \/ /\ marks \cap {"L40S", "L40", "RTX 6000", "RTX6000", "A100"} = {}
        /\ marks \cap {"RTX 9000", "RTX9000"} # {}
  THEN 4096 ELSE 2048

\* gpu is <<>> when no GPU was detected, else <<marks>>.
SelectMaxNumBatchedTokens(v, gpu) ==
  IF gpu = <<>> THEN v.max_num_batched_tokens ELSE BatchedTokensFor(gpu[1])

\* The settings vLLM is built from, but for max_num_seqs.
Selected(v, env, gpu) ==
  LET dtype == SelectKvCacheDtype(v, env)
  IN [v EXCEPT !.kv_cache_dtype = dtype,
               !.calculate_kv_scales = SelectCalculateKvScales(v, env, dtype),
               !.max_num_batched_tokens = SelectMaxNumBatchedTokens(v, gpu)]
-----------------------------------------------------------------------------
(* The estimate of max_num_seqs.                                             *)

\* params.json as a function from its keys to numbers; a value int() refuses,
\* or null, is 0, which is what a missing key amounts to wherever it is read.
Field(doc, aliases) ==
  LET present == {i \in DOMAIN aliases : aliases[i] \in DOMAIN doc}
  IN IF present = {} THEN 0
     ELSE doc[aliases[CHOOSE i \in present : \A j \in present : i <= j]]

Arch(doc) ==
  [dim            |-> Field(doc, <<"dim", "hidden_size", "d_model">>),
   n_layers       |-> Field(doc, <<"n_layers", "num_hidden_layers", "num_layers">>),
   n_kv_heads     |-> Field(doc, <<"n_kv_heads", "num_key_value_heads">>),
   head_dim       |-> Field(doc, <<"head_dim", "kv_head_dim">>),
   sliding_window |-> Field(doc, <<"sliding_window">>)]

\* _kv_cache_bytes_per_element: whatever is not one byte is taken as two.
KvBytesPerElement(dtype) == IF dtype \in Fp8 \cup {"int8", "uint8"} THEN 1 ELSE 2

\* Not positive when params.json does not say.
PerTokenBytes(arch, dtype) ==
  2 * AtLeast(0, arch.n_layers) * KvBytesPerElement(dtype)
    * (IF arch.n_kv_heads > 0 /\ arch.head_dim > 0
       THEN arch.n_kv_heads * arch.head_dim ELSE AtLeast(0, arch.dim))

\* A sliding window bounds the tokens kept, by the window and one batch.
KvTokensIgnoresBatch(v, arch) ==  \* mutant
  LET len == AtLeast(1, v.max_model_len)
  IN IF arch.sliding_window > 0 THEN AtMost(len, arch.sliding_window) ELSE len
KvTokens(v, arch) ==
  LET len     == AtLeast(1, v.max_model_len)
      batched == AtLeast(1, v.max_num_batched_tokens)
  IN IF arch.sliding_window > 0
     THEN AtMost(len, AtLeast(1, arch.sliding_window - 1 + batched)) ELSE len

PerSeqBytes(v, doc) == PerTokenBytes(Arch(doc), v.kv_cache_dtype) * KvTokens(v, Arch(doc))

Budget(v, vram, weights) ==
  (AtLeast(0, (vram * v.gpu_memory_utilization) \div 100 - weights) * KvBudgetPercent) \div 100

\* vram is 0 when nvidia-smi does not say.
EstimateMaxNumSeqs(v, vram, doc, weights) ==
  IF vram = 0 \/ PerSeqBytes(v, doc) <= 0 \/ Budget(v, vram, weights) <= 0 THEN NoEstimate
  ELSE AtMost(MaxNumSeqsCap, AtLeast(1, Budget(v, vram, weights) \div PerSeqBytes(v, doc)))

TuneMaxNumSeqs(v, env, vram, doc, weights) ==
  LET recommended == EstimateMaxNumSeqs(v, vram, doc, weights)
  IN IF "VLLM_MAX_NUM_SEQS" \in env \/ recommended = NoEstimate THEN v.max_num_seqs
     ELSE recommended
-----------------------------------------------------------------------------
\* What the engine is given, and what the rest of the server sees of it.
EngineArgs(v, seqs) == [v EXCEPT !.max_num_seqs = AtLeast(1, seqs)]
TunedSettingsNot(v, seqs) == v  \* mutant
TunedSettings(v, seqs) == [v EXCEPT !.max_num_seqs = seqs]

\* ConnectionManager's limit: the setting, or vLLM's capacity.
MaxConnections(setting, tuned) ==
  AtLeast(1, IF setting <= 0 THEN tuned.max_num_seqs ELSE setting)
=============================================================================
