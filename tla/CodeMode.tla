------------------------------ MODULE CodeMode ------------------------------
(***************************************************************************)
(* One block of code mode: the loop that drives the sandboxed script, and   *)
(* the bridge that runs each nested tool call on the auth state of the MCP  *)
(* session. What the script does (external) is arbitrary: it calls tools or *)
(* unknown names, awaits some of the futures it holds, catches or not. The  *)
(* session's store may fail; the bridge swallows that. Other requests of    *)
(* the session are left to SessionAuth.                                     *)
(***************************************************************************)
EXTENDS Integers

CONSTANT MaxScriptCalls   \* bound on the calls the script makes

ASSUME CodeModeAssumption == MaxScriptCalls \in Nat

ScriptCalls == 1..MaxScriptCalls

\* A context is named by the call that set it: 0 is the one the session had, and
\* Swapped the one a request with another refresh token starts from.
Swapped == MaxScriptCalls + 1

VARIABLES
    session,    \* whether the request has a session that keeps state
    script,     \* where the block is
    callId,     \* id of the last call the script made
    futures,    \* external: calls whose futures the script has yet to await
    pending,    \* calls whose results the loop holds
    received,   \* call -> what the script got for it
    ran,        \* history: call -> how often its tool ran
    auth,       \* the context of this request
    sessionAuth,\* the context in the MCP session
    lastSet,    \* history: what a tool, or the request's token, last set
    missed      \* history: the session has not been given it

codeVars == <<session, script, callId, futures, pending, received, ran, auth, sessionAuth,
              lastSet, missed>>

contextVars == <<session, auth, sessionAuth, lastSet, missed>>

\* Types; the futures the script holds are those whose results are held for it.
CodeTypeOK ==
    /\ script \in {"running", "calling", "tool", "succeeded", "failed", "over"}
    /\ callId \in 0..MaxScriptCalls
    /\ futures = pending /\ pending \subseteq ScriptCalls
    /\ received \in [ScriptCalls -> {"nothing", "value", "exception", "no_such_future"}]
    /\ ran \in [ScriptCalls -> Nat]
    /\ auth \in 0..Swapped /\ sessionAuth \in 0..Swapped /\ lastSet \in 0..Swapped
    /\ session \in BOOLEAN /\ missed \in BOOLEAN

CodeInit ==
    /\ script = "running" /\ callId = 0
    /\ futures = {} /\ pending = {}
    /\ received = [i \in ScriptCalls |-> "nothing"]
    /\ ran = [i \in ScriptCalls |-> 0]
    /\ session \in BOOLEAN /\ sessionAuth = 0
    /\ auth \in {0, Swapped} /\ (auth = Swapped => session)
    /\ lastSet = auth /\ missed = (auth # sessionAuth)

\* The script calls a tool.
CallTool ==
    /\ script = "running" /\ callId < MaxScriptCalls
    /\ callId' = callId + 1 /\ script' = "calling"
    /\ UNCHANGED <<futures, pending, received, ran, contextVars>>

\* A name that is not there: a NameError is raised at the call.
CallUnknown ==
    /\ script = "running" /\ callId < MaxScriptCalls
    /\ callId' = callId + 1
    /\ received' = [received EXCEPT ![callId'] = "exception"]
    /\ UNCHANGED <<script, futures, pending, ran, contextVars>>

\* bridged_call_tool: the session's state, unless the read fails, which is swallowed,
\* then the arguments' rules, which may fail. A request cancelled in the read is over.
Hydrate ==
    /\ script = "calling"
    /\ auth' \in IF session THEN {auth, sessionAuth} ELSE {auth}
    /\ script' \in {"tool", "failed", "over"}
    /\ UNCHANGED <<session, callId, futures, pending, received, ran, sessionAuth, lastSet,
                   missed>>

\* The tool runs: it may set the context, and may fail before or after that.
RunTool ==
    /\ script = "tool"
    /\ ran' = [ran EXCEPT ![callId] = @ + 1]
    /\ \/ auth' = callId /\ lastSet' = callId
       \/ UNCHANGED <<auth, lastSet>>
    /\ script' \in {"succeeded", "failed"}
    /\ UNCHANGED <<session, callId, futures, pending, received, sessionAuth, missed>>

\* Fault: the state is only saved after a success.
PersistOnSuccess == IF script = "succeeded" THEN auth ELSE sessionAuth

\* "finally": the state is saved, whether the call succeeds or not.
Persist == auth

\* persist_auth_to_mcp_session: nothing without a session; a failure is swallowed.
SaveContext ==
    \/ session /\ sessionAuth' = Persist /\ missed' = (missed /\ auth # lastSet)
    \/ session /\ missed' = TRUE /\ UNCHANGED sessionAuth
    \/ ~session /\ UNCHANGED <<sessionAuth, missed>>

\* Success leaves a result and a future; a failure is raised at the call, and a
\* cancellation ends the block.
ReturnToScript ==
    /\ script \in {"succeeded", "failed"}
    /\ SaveContext
    /\ IF script = "succeeded"
       THEN /\ pending' = pending \cup {callId} /\ futures' = futures \cup {callId}
            /\ script' = "running" /\ UNCHANGED received
       ELSE /\ received' = [received EXCEPT ![callId] = "exception"]
            /\ script' \in {"running", "over"} /\ UNCHANGED <<pending, futures>>
    /\ UNCHANGED <<session, callId, ran, auth, lastSet>>

\* The results handed out are no longer held.
Taken(ids) == ids

\* The script awaits some of its futures.
Await(ids) ==
    /\ script = "running"
    /\ received' = [i \in ScriptCalls |->
            IF i \notin ids THEN received[i]
            ELSE IF i \in pending THEN "value" ELSE "no_such_future"]
    /\ pending' = pending \ Taken(ids) /\ futures' = futures \ ids
    /\ UNCHANGED <<script, callId, ran, contextVars>>

\* The script ends, or is ended by an exception or a limit.
Finish ==
    /\ script = "running" /\ script' = "over"
    /\ UNCHANGED <<callId, futures, pending, received, ran, contextVars>>

CodeNext ==
    \/ CallTool \/ CallUnknown \/ Hydrate \/ RunTool \/ ReturnToScript \/ Finish
    \/ \E ids \in (SUBSET futures) \ {{}} : Await(ids)

CodeSpec == CodeInit /\ [][CodeNext]_codeVars

-----------------------------------------------------------------------------
\* Every future yields the value of its own call, whatever the order in which the
\* script awaits them ("No pending future for call_id" is never seen).
FuturesResolve == \A i \in ScriptCalls : received[i] # "no_such_future"

\* The request has, in every call, the context last set, by a call that then failed
\* or whose future was never awaited included, and between calls so has the session,
\* for the next request. (bridged_call_tool's "finally".) Not so while `missed`: after
\* a swapped token or a failed save the next call brings the session's old context
\* back, until a tool sets one that is saved.
ContextSurvives == ~missed =>
    /\ auth = lastSet
    /\ session /\ script \in {"running", "calling", "over"} => sessionAuth = lastSet

\* A tool runs at most once, and has run when the script goes on with a value.
RunOnce == \A i \in ScriptCalls :
    /\ ran[i] <= 1
    /\ i \in futures \/ received[i] = "value" => ran[i] = 1

\* A block calls, awaits and hands over as a sequence of plain calls would.
BlockCorrect == FuturesResolve /\ ContextSurvives /\ RunOnce
=============================================================================
