---------------------------- MODULE AnswerProviders ---------------------------
(***************************************************************************)
(* How a customer of the first chat gets an answer: ChatService.send and   *)
(* stream call HybridAIProvider, which tries the Groq models of the route, *)
(* then OpenAI if the operator opted in, then Workers AI.  A stream is cut *)
(* into chunks at any place; reasoning between <think> and </think> is     *)
(* stripped from what has arrived so far (groq.provider.ts).               *)
(*                                                                         *)
(* Abstraction: an answer is a sequence of tokens; a word is one token and *)
(* the opening tag is two, for a tag can be cut by a chunk.  Health checks,*)
(* usage records, prompts and traces are left out.                         *)
(***************************************************************************)
EXTENDS Naturals, Sequences, FiniteSets

CONSTANTS Enquiries,
          FastModel, StandardModel, BackupModel, LastResortModel,
          MaxTokens       \* bound: tokens of one stream

VARIABLES request,       \* where each customer request is
          openAIEnabled  \* OPENAI_FALLBACK_ENABLED with a key and a model

answerVars == <<request, openAIEnabled>>

OpenAI == "openai"
Workers == "workers"

-----------------------------------------------------------------------------
(* Routes: conversation-model-router.ts, uniqueModels *)

\* The elements of a list at the places kept.
Pick(raw, kept) == [n \in 1..Cardinality(kept) |->
                      raw[CHOOSE i \in kept : Cardinality({j \in kept : j <= i}) = n]]

Unique(models) == Pick(models, {i \in DOMAIN models : \A j \in 1..(i - 1) : models[j] # models[i]})

\* FAST for small talk with at most one fact, STANDARD otherwise.
Route(role) ==
  Unique(IF role = "FAST" THEN <<FastModel, StandardModel, BackupModel, LastResortModel>>
                          ELSE <<StandardModel, BackupModel, LastResortModel>>)

-----------------------------------------------------------------------------
(* Reasoning: stripReasoning and emitVisibleDelta *)

Word == "word"
Thought == "thought"        \* what the model writes between the tags
Open == <<"<thi", "nk>">>
Close == "</think>"
Chunks == {<<Word>>, <<Thought>>, <<Close>>, Open, <<Open[1]>>, <<Open[2]>>}

InsideAfter(raw, last) == \E i \in 1..last :
  /\ i > 1 /\ raw[i - 1] = Open[1] /\ raw[i] = Open[2]
  /\ \A j \in i..last : raw[j] # Close

\* Tokens that remain: outside the tags, and not part of a tag.  An open tag without an end
\* hides everything after it.
Visible(raw) == {i \in 1..Len(raw) :
  /\ ~InsideAfter(raw, i)
  /\ raw[i] = Close => ~InsideAfter(raw, i - 1)
  /\ ~(raw[i] = Open[1] /\ i < Len(raw) /\ raw[i + 1] = Open[2])}

StripReasoning(raw) == Pick(raw, Visible(raw))

\* What a model may send next: it closes what it opens, and a cut tag goes on.
MaySend(raw, chunk) ==
  IF Len(raw) > 0 /\ raw[Len(raw)] = Open[1] THEN chunk = <<Open[2]>>
  ELSE IF InsideAfter(raw, Len(raw)) THEN chunk \in {<<Thought>>, <<Close>>}
  ELSE chunk \in {<<Word>>, Open, <<Open[1]>>}

-----------------------------------------------------------------------------
(* Failures: AIUpstreamError, shouldFallback *)

\* TOO_LARGE is 413; MODEL covers missing models, 408, 409, 422, 429, 5xx, timeouts, lost
\* connections and empty answers; ACCOUNT is 401 and 403; REJECTED is any other status.
Failures == {"TOO_LARGE", "MODEL", "ACCOUNT", "REJECTED"}

ShouldFallback(failure) == failure \in {"TOO_LARGE", "MODEL"}

Becomes(r, record) == request' = [request EXCEPT ![r] = record]

\* What is left after a failure of a Groq model: the next model, or the other providers.
AfterFailure(turn, failure) ==
  LET compact == IF failure = "TOO_LARGE" THEN "aggressive" ELSE turn.input
      models == Tail(turn.models)
  IN IF ShouldFallback(failure) /\ models # <<>>
     THEN [turn EXCEPT !.models = models, !.raw = <<>>, !.emittedLength = 0, !.input = compact]
     ELSE [turn EXCEPT !.models = <<>>, !.raw = <<>>, !.emittedLength = 0,
                       !.at = IF openAIEnabled THEN "openai" ELSE "workers",
                       !.input = IF failure = "TOO_LARGE" THEN "aggressive" ELSE "normal"]

\* As it would be if a model that had begun to speak could be replaced by the next.
StartAnother(turn, failure) == AfterFailure(turn, failure)

\* The stream breaks: once it has been heard the request fails, for another model would
\* begin anew.
StopOrAnother(turn, failure) ==
  IF turn.emittedLength > 0 THEN [turn EXCEPT !.at = "unavailable"] ELSE AfterFailure(turn, failure)

-----------------------------------------------------------------------------
(* Groq *)

By(model, tokens) == [i \in DOMAIN tokens |-> [by |-> model, token |-> tokens[i]]]

\* composeAnswerWithModel: one answer, and without visible text it is a failure.
GroqCompose(r) ==
  LET turn == request[r] IN
  /\ turn.at = "groq" /\ turn.path = "send"
  /\ \/ Becomes(r, [turn EXCEPT !.at = "answered", !.answer = By(Head(turn.models), <<Word>>)])
     \/ \E failure \in Failures : Becomes(r, AfterFailure(turn, failure))
  /\ UNCHANGED openAIEnabled

\* A frame of the stream: what is visible now beyond what was emitted is emitted.
GroqChunk(r, chunk) ==
  LET turn == request[r]
      raw == turn.raw \o chunk
      visible == StripReasoning(raw)
      delta == SubSeq(visible, turn.emittedLength + 1, Len(visible))
  IN
  /\ turn.at = "groq" /\ turn.path = "stream"
  /\ Len(raw) <= MaxTokens /\ MaySend(turn.raw, chunk)
  /\ Becomes(r, [turn EXCEPT !.raw = raw,
                          !.answer = @ \o By(Head(turn.models), delta),
                          !.emittedLength = @ + Len(delta)])
  /\ UNCHANGED openAIEnabled

\* The stream ends; one in which nothing was visible is a failure.
GroqEnd(r) ==
  LET turn == request[r] IN
  /\ turn.at = "groq" /\ turn.path = "stream"
  /\ Becomes(r, IF StripReasoning(turn.raw) = <<>> THEN StopOrAnother(turn, "MODEL")
             ELSE [turn EXCEPT !.at = "answered"])
  /\ UNCHANGED openAIEnabled

GroqBreaks(r) ==
  LET turn == request[r] IN
  /\ turn.at = "groq" /\ turn.path = "stream"
  /\ \E failure \in Failures :
       /\ turn.raw # <<>> => failure = "MODEL"      \* the status came first
       /\ Becomes(r, StopOrAnother(turn, failure))
  /\ UNCHANGED openAIEnabled

-----------------------------------------------------------------------------
(* OpenAI and Workers AI: nothing they send is stripped *)

OpenAIAnswers(r) ==
  LET turn == request[r] IN
  /\ turn.at = "openai"
  /\ \/ Becomes(r, [turn EXCEPT !.at = "answered", !.answer = @ \o By(OpenAI, <<Word>>)])
     \/ Becomes(r, [turn EXCEPT !.at = "workers"])
     \/ /\ turn.path = "stream"       \* it breaks after some words, and Workers AI goes on
        /\ Becomes(r, [turn EXCEPT !.at = "workers", !.answer = @ \o By(OpenAI, <<Word>>)])
  /\ UNCHANGED openAIEnabled

WorkersAnswers(r) ==
  LET turn == request[r] IN
  /\ turn.at = "workers"
  /\ \/ Becomes(r, [turn EXCEPT !.at = "answered", !.answer = @ \o By(Workers, <<Word>>)])
     \/ Becomes(r, [turn EXCEPT !.at = "unavailable"])
  /\ UNCHANGED openAIEnabled

-----------------------------------------------------------------------------
(* ChatService.send and stream *)

NoRequest == [at |-> "idle"]

\* The answer of a direct turn needs no model.
AskModel(r) ==
  /\ request[r] = NoRequest
  /\ \E path \in {"send", "stream"}, role \in {"FAST", "STANDARD"} :
       Becomes(r, [at |-> "groq", path |-> path, models |-> Route(role), input |-> "normal",
                raw |-> <<>>, emittedLength |-> 0, answer |-> <<>>])
  /\ UNCHANGED openAIEnabled

\* The whole answer is sanitised, replaced if it contradicts the facts, shown, then stored;
\* after an error the customer reads that the reply could not be completed.
Deliver(r) ==
  /\ request[r].at = "answered"
  /\ Becomes(r, [request[r] EXCEPT !.at = "stored"])
  /\ UNCHANGED openAIEnabled

AnswerInit == /\ request = [r \in Enquiries |-> NoRequest]
              /\ openAIEnabled \in BOOLEAN

AnswerStep(r) == \/ GroqCompose(r) \/ (\E c \in Chunks : GroqChunk(r, c)) \/ GroqEnd(r) \/ GroqBreaks(r)
                 \/ OpenAIAnswers(r) \/ WorkersAnswers(r) \/ Deliver(r)

AnswerNext == \E r \in Enquiries : AskModel(r) \/ AnswerStep(r)

AnswerSpec == AnswerInit /\ [][AnswerNext]_answerVars
-----------------------------------------------------------------------------
(* Properties *)

Heard(r) == IF request[r] = NoRequest THEN <<>> ELSE request[r].answer

\* A request the Groq models still serve has a model to ask, and one that is answered or
\* stored has an answer, whatever was stripped of it (an answer in which nothing is visible
\* is a failure of the model).
AnswersTyped ==
  \A r \in Enquiries : request[r] # NoRequest =>
    /\ request[r].at = "groq" => request[r].models # <<>>
    /\ request[r].at \in {"answered", "stored"} => Heard(r) # <<>>

\* A customer hears one model, and none of its reasoning, however the chunks are cut, models
\* fail and inputs are compacted (streamAnswer stops once it has emitted).  The one mixture
\* is of an OpenAI stream that breaks and the answer of Workers AI that follows.
OneVoice ==
  \A r \in Enquiries :
    LET voices == {Heard(r)[i].by : i \in DOMAIN Heard(r)} IN
    /\ \A i \in DOMAIN Heard(r) : Heard(r)[i].token # Thought
    /\ voices \subseteq {OpenAI, Workers} \/ \E v \in voices : voices = {v}
=============================================================================
