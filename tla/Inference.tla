----------------------------- MODULE Inference -----------------------------
(* The bridge from the RAM shell to llama.cpp                               *)
(* (bitapp/native/bitnet/hermit_bitnet.cpp): one call per prompt, over a    *)
(* model that stays loaded between calls; and hermit_bitnet_run_once, which *)
(* no code of the repository calls.  Any step of the library may fail.  A   *)
(* token is taken to add one line of text.  The two probes, which look at a *)
(* buffer and keep nothing, are left out.                                   *)
EXTENDS Integers, Sequences, SequencesExt, FiniteSets

CONSTANTS
  Buffers,      \* model buffers: records len, aligned, data_offset, tensors (offset, size)
  MinLen,       \* 16: the shortest buffer that is looked at
  SizeMax,      \* SIZE_MAX
  Lines,        \* lines a token may add: class, ends (its last mark ends a sentence), n
  NCtx,         \* n_ctx
  InteractiveMax,  \* 96: the largest n_predict of an interactive call
  DefaultPredict,  \* 32: what n_predict stands for in run_once when it is not positive
  Requests,     \* n_predict and n_threads of the calls
  MaxCalls      \* bound: calls

VARIABLES
  inf_pc, inf_call,   \* the call being served: buffer, n_predict, n_threads, n_tokens
  cached_model, cached_threads, backend_ready, quiet_logs,   \* statics
  alive,              \* resources of the library that exist
  attached,           \* the thread pool the context uses: its thread count, or 0
  positions,          \* positions decoded in the context
  generated, text, inf_calls, verdict,
  freed               \* run_once freed the library's globals while backend_ready says they are there

vars == <<inf_pc, inf_call, cached_model, cached_threads, backend_ready, quiet_logs, alive,
          attached, positions, generated, text, inf_calls, verdict, freed>>

NoCall == [buffer |-> 0, n_predict |-> 0, n_threads |-> 0, n_tokens |-> 0]

Init ==
  /\ inf_pc = "idle" /\ inf_call = NoCall
  /\ cached_model = 0 /\ cached_threads = 0 /\ backend_ready = FALSE /\ quiet_logs = FALSE
  /\ alive = {} /\ attached = 0 /\ positions = <<>> /\ generated = 0 /\ text = <<>>
  /\ inf_calls = 0 /\ verdict = "none" /\ freed = FALSE

-----------------------------------------------------------------------------
(* Pure parts *)

\* Mutant of TensorFits: the size of the tensor is left out of the sum.
TensorFits_start(t, data_offset, len) ==
  /\ t.offset <= SizeMax - data_offset
  /\ (data_offset + t.offset) % (SizeMax + 1) <= len

\* bitnet_validate_gguf_tensor_bounds, one tensor: sums that would wrap are refused.
TensorFits(t, data_offset, len) ==
  /\ t.offset <= SizeMax - data_offset
  /\ t.size <= SizeMax - data_offset - t.offset
  /\ (data_offset + t.offset + t.size) % (SizeMax + 1) <= len

validate_gguf_tensor_bounds(b) ==
  \A i \in DOMAIN b.tensors : TensorFits(b.tensors[i], b.data_offset, b.len)

\* bitnet_should_stop_after_one_explanation: a pass over the lines that looks
\* for the first line of prose after code, then for the end of a sentence.
should_stop_after_one_explanation(ls) ==
  LET step(s, i) ==
        IF s.prose # 0 \/ ls[i].class = "blank"
          THEN [s EXCEPT !.blank = @ \/ (ls[i].class = "blank" /\ s.code)]
        ELSE IF ls[i].class = "code" THEN [s EXCEPT !.code = TRUE]
        ELSE IF s.code THEN [s EXCEPT !.prose = i]
        ELSE s
      end == FoldLeft(step, [code |-> FALSE, blank |-> FALSE, prose |-> 0],
                      [i \in 1..Len(ls) |-> i]) IN
    end.prose # 0 /\ \E i \in end.prose..Len(ls) : ls[i].ends

\* bitnet_should_stop_after_interactive_answer: an empty line inside the answer,
\* or three marks of which the last ends a sentence.
should_stop_after_interactive_answer(ls) ==
  LET full == {i \in DOMAIN ls : ls[i].class # "blank"} IN
    /\ full # {}
    /\ LET first == CHOOSE i \in full : \A j \in full : i <= j
           last == CHOOSE i \in full : \A j \in full : j <= i IN
         \/ \E i \in first..last : ls[i].class = "blank"
         \/ /\ FoldLeft(LAMBDA n, l : n + l.n, 0, ls) >= 3
            /\ ls[last].ends

Interactive == inf_call.n_predict > 0 /\ inf_call.n_predict <= InteractiveMax
Warmup == inf_call.n_predict < 0
\* The clamp of n_predict to the context.
Effective == IF ~Warmup /\ (inf_call.n_predict = 0 \/ inf_call.n_predict > NCtx) THEN NCtx
             ELSE inf_call.n_predict

-----------------------------------------------------------------------------
(* hermit_bitnet_prompt_decode_from_buffer *)

statics == <<cached_model, cached_threads, backend_ready, freed>>

\* A buffer that is too short or not aligned is refused before anything is touched.
refuse(b) ==
  /\ inf_pc = "idle" /\ inf_calls < MaxCalls
  /\ inf_calls' = inf_calls + 1
  /\ \/ Buffers[b].len < MinLen /\ verdict' = "-1"
     \/ Buffers[b].len >= MinLen /\ ~Buffers[b].aligned /\ verdict' = "-10"
  /\ UNCHANGED <<inf_pc, inf_call, statics, quiet_logs, alive, attached, positions, generated, text>>

enter(b, r) ==
  /\ inf_pc = "idle" /\ inf_calls < MaxCalls
  /\ Buffers[b].len >= MinLen /\ Buffers[b].aligned
  /\ inf_calls' = inf_calls + 1
  /\ inf_call' = [buffer |-> b, n_predict |-> r.n_predict, n_threads |-> r.n_threads, n_tokens |-> 0]
  /\ quiet_logs' = (r.n_predict > 0 /\ r.n_predict <= InteractiveMax)
  /\ inf_pc' = "parse" /\ positions' = <<>> /\ generated' = 0 /\ text' = <<>> /\ attached' = 0
  /\ verdict' = "none"
  /\ UNCHANGED <<statics, alive>>

\* Every return: what the call took is released, the cached model and pool and
\* the library's globals (bitnet_backend_release_for_process_lifetime does
\* nothing) are kept, and the log is as before.
ReturnWith(v, kept) ==
  /\ inf_pc' = "idle" /\ verdict' = v
  /\ alive' = alive \cap kept
  /\ quiet_logs' = FALSE /\ attached' = 0
  /\ UNCHANGED <<cached_model, cached_threads, backend_ready, inf_call, positions, generated, text, inf_calls>>

Return(v) == ReturnWith(v, {"model", "pool", "backend"}) /\ UNCHANGED freed

Go(pc) == inf_pc' = pc /\ UNCHANGED verdict

parse_gguf ==
  /\ inf_pc = "parse"
  /\ \/ Return("-2")
     \/ /\ Go("bounds") /\ alive' = alive \cup {"gguf", "metadata"}
        /\ UNCHANGED <<statics, inf_call, quiet_logs, attached, positions, generated, text, inf_calls>>

bounds ==
  /\ inf_pc = "bounds"
  /\ IF validate_gguf_tensor_bounds(Buffers[inf_call.buffer])
       THEN /\ Go("model") /\ backend_ready' = TRUE
            /\ alive' = IF backend_ready THEN alive ELSE alive \cup {"backend"}
            /\ UNCHANGED <<cached_model, cached_threads, freed, inf_call, quiet_logs, attached,
                           positions, generated, text, inf_calls>>
       ELSE Return("-11")

\* bitnet_get_buffer_model: a second buffer is refused while one is cached.
get_buffer_model ==
  /\ inf_pc = "model"
  /\ \/ /\ cached_model = inf_call.buffer
        /\ Go("context") /\ alive' = alive \ {"gguf", "metadata"}
        /\ UNCHANGED <<statics, inf_call, quiet_logs, attached, positions, generated, text, inf_calls>>
     \/ /\ cached_model = 0
        /\ Go("context") /\ cached_model' = inf_call.buffer
        /\ alive' = (alive \ {"gguf", "metadata"}) \cup {"model"}
        /\ UNCHANGED <<cached_threads, backend_ready, freed, inf_call, quiet_logs, attached,
                       positions, generated, text, inf_calls>>
     \/ cached_model # inf_call.buffer /\ Return("-3")

new_context ==
  /\ inf_pc = "context"
  /\ \/ Return("-4")
     \/ /\ Go(IF inf_call.n_threads > 1 THEN "threads" ELSE "tokenize")
        /\ alive' = alive \cup {"context"}
        /\ UNCHANGED <<statics, inf_call, quiet_logs, attached, positions, generated, text, inf_calls>>

\* bitnet_get_threadpool: a pool of another size is freed first.
get_threadpool ==
  /\ inf_pc = "threads"
  /\ \/ /\ cached_threads = inf_call.n_threads
        /\ Go("tokenize") /\ attached' = cached_threads
        /\ UNCHANGED <<statics, inf_call, quiet_logs, alive, positions, generated, text, inf_calls>>
     \/ /\ cached_threads # inf_call.n_threads
        /\ Go("tokenize") /\ alive' = alive \cup {"pool"}
        /\ cached_threads' = inf_call.n_threads /\ attached' = inf_call.n_threads
        /\ UNCHANGED <<cached_model, backend_ready, freed, inf_call, quiet_logs, positions, generated,
                       text, inf_calls>>
     \/ /\ cached_threads # inf_call.n_threads      \* ggml_threadpool_new failed
        /\ cached_threads' = 0
        /\ inf_pc' = "idle" /\ verdict' = "-12"
        /\ alive' = alive \cap {"model", "backend"}
        /\ quiet_logs' = FALSE /\ attached' = 0
        /\ UNCHANGED <<cached_model, backend_ready, freed, inf_call, positions, generated, text, inf_calls>>

tokenize(n) ==
  /\ inf_pc = "tokenize"
  /\ IF n <= 0 \/ n >= NCtx THEN Return("-5")
     ELSE IF Warmup THEN Return("0")
     ELSE /\ Go("prompt")
          /\ inf_call' = [inf_call EXCEPT !.n_tokens = n]
          /\ alive' = alive \cup {"batch"}
          /\ UNCHANGED <<statics, quiet_logs, attached, positions, generated, text, inf_calls>>

decode_prompt ==
  /\ inf_pc = "prompt"
  /\ \/ Return("-6")
     \/ /\ Go("generate")
        /\ positions' = [i \in 1..inf_call.n_tokens |-> i - 1]
        /\ alive' \in {alive, alive \cup {"sampler"}}
        /\ UNCHANGED <<statics, inf_call, quiet_logs, attached, generated, text, inf_calls>>

\* The loop of the generation: its condition, Ctrl-C, a missing logit, the
\* end-of-generation token (also when there is no sampler), a token with text.
generate(l) ==
  /\ inf_pc = "generate"
  /\ LET more == generated < Effective /\ inf_call.n_tokens + generated + 1 < NCtx IN
       \/ ~more /\ Return("0")
       \/ more /\ Return("0")                 \* Ctrl-C or end of generation
       \/ more /\ Return("-7")
       \/ /\ more /\ "sampler" \in alive
          /\ text' = Append(text, l)
          /\ Go(IF \/ should_stop_after_one_explanation(text')
                   \/ Interactive /\ should_stop_after_interactive_answer(text')
                  THEN "stop" ELSE "decode")
          /\ UNCHANGED <<statics, inf_call, quiet_logs, alive, attached, positions, generated, inf_calls>>

stop ==
  /\ inf_pc = "stop"
  /\ inf_pc' = "idle" /\ verdict' = "0"
  /\ generated' = generated + 1
  /\ alive' = alive \cap {"model", "pool", "backend"}
  /\ quiet_logs' = FALSE /\ attached' = 0
  /\ UNCHANGED <<statics, inf_call, positions, text, inf_calls>>

decode_token ==
  /\ inf_pc = "decode"
  /\ \/ Return("-8")
     \/ /\ Go("generate")
        /\ generated' = generated + 1
        /\ positions' = Append(positions, inf_call.n_tokens + generated)
        /\ UNCHANGED <<statics, inf_call, quiet_logs, alive, attached, text, inf_calls>>

-----------------------------------------------------------------------------
(* hermit_bitnet_run_once: a model from a file, for one call *)

run_once(p) ==
  /\ inf_pc = "idle" /\ inf_calls < MaxCalls
  /\ inf_calls' = inf_calls + 1
  /\ inf_call' = [NoCall EXCEPT !.n_predict = IF p <= 0 THEN DefaultPredict ELSE p]
  /\ inf_pc' = "once_model" /\ positions' = <<>> /\ generated' = 0 /\ text' = <<>> /\ verdict' = "none"
  /\ alive' = alive \cup {"backend"}
  /\ UNCHANGED <<statics, attached, quiet_logs>>

\* Every return of run_once frees the library's globals with the rest, also those that a prompt set up.
once_return(v) ==
  /\ ReturnWith(v, {"model", "pool"})
  /\ freed' = (freed \/ backend_ready)

once_take(pc, next, what, error) ==
  /\ inf_pc = pc
  /\ \/ once_return(error)
     \/ /\ Go(next) /\ alive' = alive \cup {what}
        /\ UNCHANGED <<statics, inf_call, quiet_logs, attached, positions, generated, text, inf_calls>>

once_tokenize(n) ==
  /\ inf_pc = "once_tokenize"
  /\ IF n <= 0 \/ n >= NCtx THEN once_return("-4")
     ELSE /\ Go("once_prompt")
          /\ inf_call' = [inf_call EXCEPT !.n_tokens = n]
          /\ alive' = alive \cup {"batch"}
          /\ UNCHANGED <<statics, quiet_logs, attached, positions, generated, text, inf_calls>>

once_prompt ==
  /\ inf_pc = "once_prompt"
  /\ \/ once_return("-5")
     \/ /\ Go("once_generate") /\ alive' = alive \cup {"sampler"}
        /\ positions' = [i \in 1..inf_call.n_tokens |-> i - 1]
        /\ UNCHANGED <<statics, inf_call, quiet_logs, attached, generated, text, inf_calls>>

\* The bounds of the loop, the end-of-generation token, a decode that fails, one that does not.
once_generate ==
  /\ inf_pc = "once_generate"
  /\ LET pos == inf_call.n_tokens + generated
         more == generated < inf_call.n_predict /\ pos < NCtx
     IN  \/ once_return("0")
         \/ more /\ once_return("-6")
         \/ /\ more /\ Go("once_generate")
            /\ generated' = generated + 1 /\ positions' = Append(positions, pos)
            /\ UNCHANGED <<statics, inf_call, quiet_logs, alive, attached, text, inf_calls>>

once ==
  \/ \E r \in Requests : run_once(r.n_predict)
  \/ once_take("once_model", "once_context", "file_model", "-2")
  \/ once_take("once_context", "once_tokenize", "context", "-3")
  \/ \E n \in {0, 1, NCtx - 2, NCtx} : once_tokenize(n)
  \/ once_prompt \/ once_generate

Next ==
  \/ \E b \in DOMAIN Buffers : refuse(b) \/ \E r \in Requests : enter(b, r)
  \/ parse_gguf \/ bounds \/ get_buffer_model \/ new_context \/ get_threadpool
  \/ \E n \in {0, 1, NCtx - 2, NCtx} : tokenize(n)
  \/ decode_prompt
  \/ \E l \in Lines : generate(l)
  \/ stop \/ decode_token
  \/ once

Spec == Init /\ [][Next]_vars

TypeOK ==
  /\ inf_pc \in {"idle", "parse", "bounds", "model", "context", "threads", "tokenize",
                 "prompt", "generate", "stop", "decode", "once_model", "once_context",
                 "once_tokenize", "once_prompt", "once_generate"}
  /\ cached_model \in {0} \cup DOMAIN Buffers /\ backend_ready \in BOOLEAN /\ quiet_logs \in BOOLEAN
  /\ alive \subseteq {"gguf", "metadata", "model", "context", "pool", "batch", "sampler", "file_model", "backend"}

\* Tokens are decoded at consecutive positions of the context, without a gap,
\* a repetition or one past its end, whatever path the generation takes; it
\* makes no more tokens than were asked for.
PositionsInOrder ==
  /\ \A i \in DOMAIN positions : positions[i] = i - 1 /\ positions[i] < NCtx
  /\ inf_pc # "idle" /\ inf_call.n_predict > 0 => generated <= Effective
  /\ inf_pc = "decode" => Len(positions) < NCtx

\* Between calls nothing of a call is left, on whichever of its paths it
\* returned: only the cached model and the cached pool, each exactly when the
\* statics say so, and a log that is not quiet.  A pool is attached to a
\* context only while it exists.  The library's globals are there exactly when
\* backend_ready says so, from the first prompt on and while each prompt works
\* with them, unless run_once freed them: it does not reset backend_ready, so
\* that the prompts after it would work without them.
NothingLeaks ==
  /\ inf_pc = "idle" =>
       /\ alive \ {"backend"} = (IF cached_model # 0 THEN {"model"} ELSE {}) \cup
                                 (IF cached_threads # 0 THEN {"pool"} ELSE {})
       /\ ~freed => ("backend" \in alive <=> backend_ready)
       /\ ~quiet_logs
  /\ inf_pc \in {"model", "context", "threads", "tokenize", "prompt", "generate", "stop", "decode"} /\ ~freed =>
       "backend" \in alive
  /\ attached # 0 => "pool" \in alive /\ attached = cached_threads

\* A model is loaded only when all of its tensors lie in the buffer, also for
\* offsets whose sum does not fit a size_t.
LoadedFits ==
  cached_model # 0 =>
    LET b == Buffers[cached_model] IN
      \A i \in DOMAIN b.tensors : b.data_offset + b.tensors[i].offset + b.tensors[i].size <= b.len

\* The pass of should_stop_after_one_explanation finds what its name says:
\* prose after code, and a sentence that ended in it.
StopsAfterExplanation ==
  should_stop_after_one_explanation(text) <=>
    \E i, j \in DOMAIN text :
      /\ i < j /\ text[i].class = "code" /\ text[j].class = "prose"
      /\ \E k \in j..Len(text) : text[k].ends
=============================================================================
