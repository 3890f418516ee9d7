--------------------------- MODULE ProviderAdapter ---------------------------
(***************************************************************************)
(* One run of a hosted-model adapter (CodexAdapter, AnthropicAdapter,      *)
(* GeminiAdapter) and the workflow engine that reads its result.           *)
(*                                                                         *)
(* The adapters keep their runs in a Map and share nothing between two     *)
(* runs, so one run is modelled: the CodexRunState record, the local       *)
(* variables of performExecution, the timer of the time budget and the     *)
(* reader.  JavaScript code between two awaits is one step: a step starts  *)
(* where a promise settles and ends at the next await.                     *)
(*                                                                         *)
(* The three classes are the same program but for the provider call.       *)
(* Codex and Anthropic hand the abort signal to the client; Gemini does    *)
(* not, so an aborted Gemini call ends only by itself.                     *)
(***************************************************************************)
EXTENDS Naturals, Sequences

CONSTANTS
    Contents,     \* the message contents a provider may answer with
    MaxRetries,   \* MAX_RETRIES of performExecution
    NoContent     \* no response yet

ToolIds == {"git", "shell", "sandbox-filesystem", "other"}
OperationIds == {"git.add", "git.commit", "git.push", "shell.exec",
                 "filesystem.read", "filesystem.write", "other"}

\* A tool proposal as the model wrote it.  complete: every required field is
\* there, none is unknown, and the environment is one of the four.
Proposal == [toolId : ToolIds, operationId : OperationIds, complete : BOOLEAN]

\* text: the content is a string;  ticks: it contains ```;  block: a fenced
\* block can be cut out of it;  json: that block is JSON;  envelope: it has
\* the strict outer shape;  bare: it starts with { or [.
Content == [text : BOOLEAN, ticks : BOOLEAN, block : BOOLEAN, json : BOOLEAN,
            envelope : BOOLEAN, bare : BOOLEAN, artifacts : BOOLEAN,
            proposals : Seq(Proposal)]

ASSUME ContentsAssumption ==
    /\ Contents \subseteq Content
    /\ \A c \in Contents : c.block => c.ticks
    /\ NoContent \notin Contents
ASSUME MaxRetriesAssumption == MaxRetries \in Nat \ {0}

VARIABLES
    adapter,      \* which of the three classes runs
    hasKey,       \* the API key is among the run's secrets
    timeBudget,   \* the run has a timeBudgetMs
    status, artifacts, evidence, usage, aborted,      \* CodexRunState
    pc, attempt, lastError, content, runStatus, notes,  \* performExecution
    calls, outcomes,  \* proposals handed to the gateway, and its answers
    timer,        \* the setTimeout of execute
    reader, seen  \* the engine's getStatus ... getUsage sequence

run    == <<status, artifacts, evidence, usage, aborted>>
locals == <<pc, attempt, lastError, content, runStatus, notes, calls,
            outcomes>>
input  == <<adapter, hasKey, timeBudget>>
engine == <<reader, seen>>
adapterVars == <<input, run, locals, timer, engine>>

Adapters     == {"codex", "anthropic", "gemini"}
RunStatuses  == {"UNKNOWN", "RUNNING", "COMPLETED", "FAILED", "CANCELLED",
                 "INTERRUPTED"}
ToolStatuses == {"SUCCEEDED", "FAILED", "DENIED", "CANCELLED", "TIMED_OUT",
                 "UNKNOWN"}
EvidenceTags == {"missing key", "timeout", "malformed", "model", "denial",
                 "retry"}
Results      == {"none", "response"}

\* What the catch block tells apart: a 429 or 5xx status, the name AbortError
\* (not only the run's own signal makes one), anything else.
Errors       == {"none", "http", "AbortError", "other"}

------------------------------------------------------------------------------
(* provider-output-parser.ts                                               *)

AllowedOperations ==
    {<<"git", "git.add">>, <<"git", "git.commit">>, <<"git", "git.push">>,
     <<"shell", "shell.exec">>,
     <<"sandbox-filesystem", "filesystem.read">>,
     <<"sandbox-filesystem", "filesystem.write">>}

ValidProposal(p) ==
    p.complete /\ <<p.toolId, p.operationId>> \in AllowedOperations

\* safeParse of the whole envelope: one bad proposal rejects all of it.
Accepted(c) ==
    /\ c.block /\ c.json /\ c.envelope
    /\ \A i \in DOMAIN c.proposals : ValidProposal(c.proposals[i])

\* parseProviderOutput(c).toolProposals; the fallback has none.
ToolProposals(c) == IF Accepted(c) THEN c.proposals ELSE <<>>

Malformed(c) ==
    \/ ~c.text                                   \* parseProviderOutput throws
    \/ /\ c.bare /\ ~c.ticks
       /\ ToolProposals(c) = <<>>
       /\ ~(Accepted(c) /\ c.artifacts)

------------------------------------------------------------------------------
AdapterInit ==
    /\ adapter \in Adapters /\ hasKey \in BOOLEAN /\ timeBudget \in BOOLEAN
    /\ status = "UNKNOWN" /\ artifacts = "none" /\ usage = "none"
    /\ evidence = {} /\ aborted = FALSE
    /\ pc = "idle" /\ attempt = 0 /\ lastError = "none"
    /\ content = NoContent
    /\ runStatus = "COMPLETED" /\ notes = {}
    /\ calls = <<>> /\ outcomes = <<>>
    /\ timer = "off"
    /\ reader = "idle"
    /\ seen = [status |-> "UNKNOWN", artifacts |-> "none", evidence |-> {},
               usage |-> "none"]

\* execute: without a key the run fails at once; otherwise the timer is
\* armed and performExecution runs up to its first provider call.
Execute ==
    /\ pc = "idle"
    /\ \/ /\ hasKey
          /\ status' = "RUNNING" /\ pc' = "calling"
          /\ timer' = IF timeBudget THEN "armed" ELSE "off"
          /\ UNCHANGED evidence
       \/ /\ ~hasKey
          /\ status' = "FAILED" /\ pc' = "returned"
          /\ evidence' = {"missing key"}
          /\ UNCHANGED timer
    /\ UNCHANGED <<input, artifacts, usage, aborted, attempt, lastError,
                   content, runStatus, notes, calls, outcomes, engine>>

\* performExecution ends without touching the run.
ReturnSilently ==
    /\ pc' = "returned"
    /\ UNCHANGED <<status, artifacts, evidence, usage>>

\* updateState with a status, and the evidence when the call names it.
ReturnWith(s, ev) ==
    /\ pc' = "returned"
    /\ status' = s /\ evidence' = ev
    /\ UNCHANGED <<artifacts, usage>>

\* A mutant: the usage is left to a later update that never comes.
Settle_NoUsage(s, extra) ==
    /\ pc' = "returned"
    /\ status' = s
    /\ artifacts' = "response" /\ evidence' = {"model"} \union extra
    /\ UNCHANGED usage

\* The updateState after the last proposal: one Object.assign.
Settle(s, extra) ==
    /\ pc' = "returned"
    /\ status' = s
    /\ artifacts' = "response" /\ usage' = "response"
    /\ evidence' = {"model"} \union extra

\* The response has arrived: malformed output fails the run, a response
\* without proposals settles it, otherwise the first proposal is submitted.
ProviderAnswers(c) ==
    /\ pc = "calling"
    /\ content' = c
    /\ \/ /\ Malformed(c)
          /\ ReturnWith("FAILED", {"malformed"})
          /\ UNCHANGED calls
       \/ /\ ~Malformed(c) /\ ToolProposals(c) = <<>>
          /\ Settle("COMPLETED", notes)
          /\ UNCHANGED calls
       \/ /\ ~Malformed(c) /\ ToolProposals(c) # <<>>
          /\ pc' = "tools"
          /\ calls' = Append(calls, Head(ToolProposals(c)))
          /\ UNCHANGED <<status, artifacts, evidence, usage>>
    /\ UNCHANGED <<input, aborted, attempt, lastError, runStatus, notes,
                   outcomes, timer, engine>>

\* A mutant: an ambiguous tool result is taken for a success.
Worsen_TrustsUnknown(rs, s) ==
    CASE s \in {"DENIED", "FAILED", "TIMED_OUT"} -> "FAILED"
      [] s = "CANCELLED" /\ rs = "COMPLETED" -> "CANCELLED"
      [] OTHER -> rs

\* runStatus after a tool result: a failure wins, a cancellation only
\* replaces COMPLETED.
Worsen(rs, s) ==
    CASE s \in {"DENIED", "FAILED", "TIMED_OUT", "UNKNOWN"} -> "FAILED"
      [] s = "CANCELLED" /\ rs = "COMPLETED" -> "CANCELLED"
      [] OTHER -> rs

\* gateway.execute answers: the next proposal is submitted, whatever the
\* answer and whether or not the run has been aborted; after the last one
\* the run settles.
GatewayReturns(s) ==
    /\ pc = "tools"
    /\ outcomes' = Append(outcomes, s)
    /\ runStatus' = Worsen(runStatus, s)
    /\ notes' = notes \union (IF s = "DENIED" THEN {"denial"} ELSE {})
    /\ \/ /\ Len(calls) < Len(ToolProposals(content))
          /\ calls' = Append(calls, ToolProposals(content)[Len(calls) + 1])
          /\ UNCHANGED <<pc, status, artifacts, evidence, usage>>
       \/ /\ Len(calls) = Len(ToolProposals(content))
          /\ Settle(runStatus', notes')
          /\ UNCHANGED calls
    /\ UNCHANGED <<input, aborted, attempt, lastError, content, timer, engine>>

\* A mutant: an error without an HTTP status is retried like a server error.
OtherError_Retried(name) ==
    /\ lastError' = name
    /\ pc' = "waiting"
    /\ UNCHANGED <<status, artifacts, evidence, usage>>

\* The last branches of the catch block: an error without an HTTP status.
\* One named AbortError ends the run silently, aborted or not.
OtherError(name) ==
    /\ lastError' = name
    /\ \/ (name = "AbortError" \/ aborted) /\ ReturnSilently
       \/ name # "AbortError" /\ ~aborted /\ ReturnWith("FAILED", evidence)

\* gateway.execute throws; its errors carry no HTTP status.
GatewayThrows ==
    /\ pc = "tools"
    /\ \E name \in {"AbortError", "other"} : OtherError(name)
    /\ UNCHANGED <<input, aborted, attempt, content, runStatus, notes, calls,
                   outcomes, timer, engine>>

\* The provider call fails with an error that carries no HTTP status.
ProviderFails ==
    /\ pc = "calling"
    /\ \E name \in {"AbortError", "other"} : OtherError(name)
    /\ UNCHANGED <<input, aborted, attempt, content, runStatus, notes, calls,
                   outcomes, timer, engine>>

\* A mutant: after the last attempt the loop just runs out.
ProviderRefuses_NoSettle(giveUp) ==
    /\ pc = "calling"
    /\ lastError' = "http"
    /\ notes' = notes \union {"retry"}
    /\ \/ /\ attempt < MaxRetries - 1
          /\ pc' = "waiting"
       \/ /\ attempt = MaxRetries - 1
          /\ pc' = "returned"
    /\ UNCHANGED <<input, run, attempt, content, runStatus, calls,
                   outcomes, timer, engine>>

\* A mutant: an off-by-one allows one attempt more.
ProviderRefuses_OneMore(giveUp) ==
    /\ pc = "calling"
    /\ lastError' = "http"
    /\ notes' = notes \union {"retry"}
    /\ \/ /\ attempt < MaxRetries
          /\ pc' = "waiting"
          /\ UNCHANGED <<status, artifacts, evidence, usage>>
       \/ /\ attempt = MaxRetries
          /\ ReturnWith(giveUp, notes')
    /\ UNCHANGED <<input, aborted, attempt, content, runStatus, calls,
                   outcomes, timer, engine>>

\* 429 and 5xx: wait and try again; the last attempt gives up.  The signal
\* is not looked at here.
ProviderRefuses(giveUp) ==
    /\ pc = "calling"
    /\ lastError' = "http"
    /\ notes' = notes \union {"retry"}
    /\ \/ /\ attempt < MaxRetries - 1
          /\ pc' = "waiting"
          /\ UNCHANGED <<status, artifacts, evidence, usage>>
       \/ /\ attempt = MaxRetries - 1
          /\ ReturnWith(giveUp, notes')
    /\ UNCHANGED <<input, aborted, attempt, content, runStatus, calls,
                   outcomes, timer, engine>>

\* A mutant: the next attempt is made whatever happened during the wait.
NextAttempt_Deaf ==
    /\ pc = "waiting"
    /\ attempt' = attempt + 1
    /\ pc' = "calling"
    /\ UNCHANGED <<input, run, lastError, content, runStatus, notes, calls,
                   outcomes, timer, engine>>

\* The wait is over: the next turn of the loop looks at the signal first.
NextAttempt ==
    /\ pc = "waiting"
    /\ attempt' = attempt + 1
    /\ \/ aborted /\ pc' = "returned"
       \/ ~aborted /\ pc' = "calling"
    /\ UNCHANGED <<input, run, lastError, content, runStatus, notes, calls,
                   outcomes, timer, engine>>

\* A client that was given the signal rejects the call.
ProviderAborts ==
    /\ pc = "calling" /\ aborted
    /\ OtherError("AbortError")
    /\ UNCHANGED <<input, aborted, attempt, content, runStatus, notes, calls,
                   outcomes, timer, engine>>

PerformExecution ==
    \/ \E c \in Contents : ProviderAnswers(c)
    \/ ProviderRefuses("INTERRUPTED")   \* 429
    \/ ProviderRefuses("FAILED")        \* 5xx
    \/ ProviderFails
    \/ \E s \in ToolStatuses : GatewayReturns(s)
    \/ GatewayThrows
    \/ NextAttempt

\* The setTimeout callback of execute; nothing ever clears the timer.
TimerFires ==
    /\ timer = "armed"
    /\ timer' = "fired"
    /\ aborted' = TRUE
    /\ status' = "FAILED" /\ evidence' = evidence \union {"timeout"}
    /\ UNCHANGED <<input, artifacts, usage, locals, engine>>

Cancel ==
    /\ pc # "idle"
    /\ aborted' = TRUE
    /\ status' = "CANCELLED"
    /\ UNCHANGED <<input, artifacts, evidence, usage, locals, timer, engine>>

CodexExecute == adapter = "codex" /\ (Execute \/ TimerFires)
CodexPerformExecution == adapter = "codex" /\ (PerformExecution \/ ProviderAborts)
CodexCancel == adapter = "codex" /\ Cancel

AnthropicExecute == adapter = "anthropic" /\ (Execute \/ TimerFires)
AnthropicPerformExecution ==
    adapter = "anthropic" /\ (PerformExecution \/ ProviderAborts)
AnthropicCancel == adapter = "anthropic" /\ Cancel

GeminiExecute == adapter = "gemini" /\ (Execute \/ TimerFires)
GeminiPerformExecution == adapter = "gemini" /\ PerformExecution
GeminiCancel == adapter = "gemini" /\ Cancel

\* The engine's four awaited reads, in the order of the code.
GetStatus ==
    /\ reader = "idle" /\ pc # "idle"
    /\ reader' = "artifacts"
    /\ seen' = [seen EXCEPT !.status = status]
    /\ UNCHANGED <<input, run, locals, timer>>

GetArtifacts ==
    /\ reader = "artifacts"
    /\ reader' = "evidence"
    /\ seen' = [seen EXCEPT !.artifacts = artifacts]
    /\ UNCHANGED <<input, run, locals, timer>>

GetEvidence ==
    /\ reader = "evidence"
    /\ reader' = "usage"
    /\ seen' = [seen EXCEPT !.evidence = evidence]
    /\ UNCHANGED <<input, run, locals, timer>>

GetUsage ==
    /\ reader = "usage"
    /\ reader' = "done"
    /\ seen' = [seen EXCEPT !.usage = usage]
    /\ UNCHANGED <<input, run, locals, timer>>

AdapterNext ==
    \/ CodexExecute \/ CodexPerformExecution \/ CodexCancel
    \/ AnthropicExecute \/ AnthropicPerformExecution \/ AnthropicCancel
    \/ GeminiExecute \/ GeminiPerformExecution \/ GeminiCancel
    \/ GetStatus \/ GetArtifacts \/ GetEvidence \/ GetUsage

\* The provider clients and the gateway always answer (the clients have a
\* request timeout of their own) and the event loop runs its timers.
Fairness ==
    /\ WF_adapterVars(CodexPerformExecution)
    /\ WF_adapterVars(AnthropicPerformExecution)
    /\ WF_adapterVars(GeminiPerformExecution)
    /\ WF_adapterVars(TimerFires)

AdapterSpec == AdapterInit /\ [][AdapterNext]_adapterVars /\ Fairness

------------------------------------------------------------------------------
(* Types                                                                   *)

AdapterTypeOK ==
    /\ adapter \in Adapters /\ hasKey \in BOOLEAN /\ timeBudget \in BOOLEAN
    /\ status \in RunStatuses
    /\ artifacts \in Results /\ usage \in Results
    /\ evidence \subseteq EvidenceTags
    /\ aborted \in BOOLEAN
    /\ pc \in {"idle", "calling", "tools", "waiting", "returned"}
    /\ attempt \in 0 .. MaxRetries - 1
    /\ lastError \in Errors
    /\ content \in Contents \union {NoContent}
    /\ runStatus \in {"COMPLETED", "FAILED", "CANCELLED"}
    /\ notes \subseteq {"retry", "denial"}
    /\ calls \in Seq(Proposal) /\ outcomes \in Seq(ToolStatuses)
    /\ timer \in {"off", "armed", "fired"}
    /\ reader \in {"idle", "artifacts", "evidence", "usage", "done"}
    /\ seen \in [status : RunStatuses, artifacts : Results,
                 evidence : SUBSET EvidenceTags, usage : Results]

------------------------------------------------------------------------------
(* Safety                                                                  *)

\* The proposals of one response at most, each at most once and in order:
\* no retry of the provider call follows a tool call, whatever the gateway
\* answers or throws (performExecution's catch block).
ToolsAreNotRetried ==
    calls # <<>> =>
        /\ pc \in {"tools", "returned"}
        /\ content # NoContent
        /\ Len(calls) <= Len(ToolProposals(content))
        /\ \A i \in 1 .. Len(calls) : calls[i] = ToolProposals(content)[i]

\* A run that reads COMPLETED has a well-formed response, handed every
\* proposal of it to the gateway, and every one of them succeeded.
CompletedDidEverything ==
    status = "COMPLETED" =>
        /\ content # NoContent /\ ~Malformed(content)
        /\ calls = ToolProposals(content)
        /\ Len(outcomes) = Len(calls)
        /\ \A i \in 1 .. Len(outcomes) : outcomes[i] = "SUCCEEDED"

\* The engine reads the status first and the results in three later awaits:
\* when it saw COMPLETED, what it read after it is the result of that
\* completion, even if the run is cancelled or times out in between.
CompletedIsReadWhole ==
    seen.status = "COMPLETED" =>
        /\ reader \in {"evidence", "usage", "done"} => seen.artifacts = "response"
        /\ reader \in {"usage", "done"} => "model" \in seen.evidence
        /\ reader = "done" => seen.usage = "response"

\* An aborted run (cancelled, or out of time) sends the provider nothing
\* more, even if the abort comes during the pause before a retry.
AbortStopsRequests ==
    [][aborted => (pc' = "calling" => pc = "calling")]_adapterVars

\* A run does not stay RUNNING: every way through performExecution ends in
\* an update, or after an abort that made one, except one.  An AbortError the
\* run's own signal did not cause is swallowed (codex-adapter.ts:308); then
\* only the time budget, if there is one, ends the run.
RunEnds ==
    status = "RUNNING" ~>
        status # "RUNNING" \/ (lastError = "AbortError" /\ ~timeBudget)

==============================================================================
