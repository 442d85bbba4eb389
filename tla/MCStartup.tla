----------------------------- MODULE MCStartup ------------------------------
(* Two replicas, two shards, and hosts small enough to count their bytes.   *)
EXTENDS Startup, TLC

CONSTANTS p1, p2, big, small

TwoProcs  == {p1, p2}
TwoShards == {big, small}
Sizes     == big :> 40 @@ small :> 10
SomeDelays == {80, 100, 160}

\* What the repository may ship as tekken.json.
AtTop    == [top |-> 160, audio |-> None, object |-> TRUE]
InAudio  == [top |-> None, audio |-> 160, object |-> TRUE]
NoDelay  == [top |-> None, audio |-> None, object |-> TRUE]
NoObject == [top |-> None, audio |-> None, object |-> FALSE]

Vllm == [max_num_seqs |-> 8, max_num_batched_tokens |-> 2, max_model_len |-> 6,
         gpu_memory_utilization |-> 92, kv_cache_dtype |-> "auto", calculate_kv_scales |-> FALSE]
Gqa     == "n_layers" :> 1 @@ "n_kv_heads" :> 1 @@ "head_dim" :> 1 @@ "sliding_window" :> 3
Dense   == "num_layers" :> 1 @@ "d_model" :> 2
Unknown == "num_layers" :> 1

Typical == [tekken |-> AtTop, doc |-> Gqa, vram |-> 300, limit |-> 0, env |-> {}, gpu |-> <<>>,
            vllm |-> Vllm]

\* One host for each way through the tuning, and for each tekken.json.
SomeHosts ==
  {Typical,
   [Typical EXCEPT !.tekken = InAudio, !.doc = Dense, !.vram = 300],
   [Typical EXCEPT !.tekken = NoDelay, !.gpu = <<{"A100"}>>, !.vram = 100],
   [Typical EXCEPT !.tekken = NoObject, !.doc = Unknown, !.limit = 3],
   [Typical EXCEPT !.vram = 54, !.gpu = <<{"H100"}>>],
   [Typical EXCEPT !.vram = 56, !.env = {"VLLM_MAX_NUM_SEQS"}],
   [Typical EXCEPT !.vllm.kv_cache_dtype = "int8", !.env = {"VLLM_KV_CACHE_DTYPE"}],
   [Typical EXCEPT !.vllm.kv_cache_dtype = "fp8", !.vllm.calculate_kv_scales = TRUE,
                   !.env = {"VLLM_KV_CACHE_DTYPE", "VLLM_CALCULATE_KV_SCALES"}, !.vram = 0]}
=============================================================================
