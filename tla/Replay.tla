------------------------------- MODULE Replay -------------------------------
(***************************************************************************)
(* Record and replay of one component (replay/record.c), with the capture  *)
(* wrappers around its system calls (wasm/syscalls.c) and the part of      *)
(* scheduler_step that runs a recorded handler.                            *)
(*                                                                         *)
(* The guest is any deterministic program over a memory of three cells:    *)
(* acc (what it computed), buf (the span it passes to system calls) and    *)
(* aux (the word message_recv returns a capability slot in).  Program[acc] *)
(* is the next call of a handler, "return" its end.  Everything else a     *)
(* live call returns is chosen by the environment.                         *)
(***************************************************************************)
EXTENDS Integers, Sequences, FiniteSets

CONSTANTS Program,      \* the guest's next call, by acc
          Values,       \* what a live call may return or write
          LogCapacity,  \* REPLAY_BYTES, in records
          None,
          MaxHandlers,  \* bound on handlers run
          MaxRestarts   \* bound on power failures

VARIABLES mem,      \* the owner's linear memory
          saved,    \* scheduler_step's copy of it, None between handlers
          alive,    \* the owner has not exited
          durable,  \* the memory of the owner's last committed state
          session,  \* the replay_session, None when active is NULL
          stored,   \* objects {7,0} to {7,3}, None before the first save
          handlers, restarts

replayVars == <<mem, saved, alive, durable, session, stored, handlers, restarts>>

Accs == DOMAIN Program
Memory == [acc : Accs, buf : Values, aux : Values]
Handler == "handler"   \* the record kind replay_handler writes

-----------------------------------------------------------------------------
\* The spans each wrapper hands to capture_before: what the call reads of the
\* guest's memory and what it writes there.

ObjectCalls ==
    [k \in {"log", "object_create", "object_read", "object_write",
            "object_size", "cap_drop", "cap_derive", "cap_revoke"} |->
        [input |-> k \in {"log", "object_write"},
         output |-> k = "object_read", aux |-> FALSE]]

OtherCalls ==
    [k \in {"message_send", "message_recv", "timer_set", "time_logical",
            "self", "exit", "provenance", "stats", "trace"} |->
        [input |-> k = "message_send",
         output |-> k \in {"message_recv", "provenance", "stats", "trace"},
         aux |-> k = "message_recv"]]

Captures(k) == IF k \in DOMAIN ObjectCalls THEN ObjectCalls[k] ELSE OtherCalls[k]

\* What the live implementations write in the guest's memory.
Writes(k) == k \in {"object_read", "message_recv", "provenance", "stats", "trace"}
WritesAux(k) == k = "message_recv"

Input(k, m) == IF Captures(k).input THEN <<m.buf>> ELSE <<>>
Output(k, m) == (IF Captures(k).output THEN <<m.buf>> ELSE <<>>)
             \o (IF Captures(k).aux THEN <<m.aux>> ELSE <<>>)

\* The guest's own step once the call has returned result.
Continue(m, result) == [m EXCEPT !.acc = (m.acc + result + 1) % Cardinality(Accs)]

\* The guest's entry, which may read the handler's kind and its time.
Enter(m, timer) == [m EXCEPT !.acc = (m.acc + timer) % Cardinality(Accs)]

-----------------------------------------------------------------------------
Record(kind, args, input, output, result, sequence) ==
    [kind |-> kind, args |-> args, input |-> input, output |-> output,
     result |-> result, sequence |-> sequence]

\* replay_before in record mode: room for one more record.
Admits(ss) == ~ss.failed /\ Len(ss.log) < LogCapacity

Append1(ss, kind, args, input, output, result) ==
    [ss EXCEPT !.log = Append(@, Record(kind, args, input, output, result, ss.sequence)),
               !.sequence = @ + 1]

\* replay_log_validate: dense sequence numbers, a handler first, and handler
\* records that carry nothing but the kind of handler.  (Its time is only seen
\* through time_logical, whose result is a record of its own.)
replay_log_validate(log) ==
    /\ log # <<>>
    /\ log[1].kind = Handler
    /\ \A i \in DOMAIN log :
         /\ log[i].sequence = i - 1
         /\ log[i].kind = Handler =>
              /\ log[i].input = <<>> /\ log[i].output = <<>>
              /\ log[i].args \in {0, 1} /\ log[i].result = 0

\* replay_before in play mode: the record at the cursor is this very call.
Matches(r, kind, args, input, outs, sequence) ==
    /\ r.kind = kind /\ r.args = args /\ r.sequence = sequence
    /\ r.input = input /\ Len(r.output) = outs

\* The call made by the copy when its memory is m, answered from record r.
Answer(m, r) ==
    LET k == Program[m.acc]
        outs == Len(Output(k, m))
        withBuf == IF Captures(k).output THEN [m EXCEPT !.buf = r.output[1]] ELSE m
        withAux == IF Captures(k).aux THEN [withBuf EXCEPT !.aux = r.output[outs]]
                   ELSE withBuf
    IN Continue(withAux, r.result)

\* replay_verify's loop: c is the copy, [m, ok, in handler].  Each record of
\* the log is consumed by a handler's start or by the call the copy makes.
PlayRecord(c, r, sequence) ==
    LET k == Program[c.m.acc] IN
    IF ~c.ok THEN c
    ELSE IF ~c.inHandler \/ k = "return"
         THEN [m |-> Enter(c.m, r.args), inHandler |-> TRUE,
               ok |-> r.kind = Handler /\ r.args \in {0, 1} /\ r.sequence = sequence]
    ELSE IF Matches(r, k, c.m.acc, Input(k, c.m), Len(Output(k, c.m)), sequence)
         THEN [c EXCEPT !.m = Answer(c.m, r)]
    ELSE [c EXCEPT !.ok = FALSE]

Play(initial, log) ==
    LET f[i \in 0..Len(log)] ==
          IF i = 0 THEN [m |-> initial, inHandler |-> FALSE, ok |-> TRUE]
          ELSE PlayRecord(f[i - 1], log[i], i - 1)
    IN f[Len(log)]

\* The copy has consumed the log and its last handler has returned.
Completes(c) == c.ok /\ (c.inHandler => Program[c.m.acc] = "return")

\* Its memory is then the expected one.
Reproduces(initial, log, expected) ==
    LET c == Play(initial, log) IN Completes(c) /\ c.m = expected

\* Against the loaded final state, or else against the owner's live memory.
Expected(ss) == IF ss.expected # None THEN ss.expected ELSE mem

-----------------------------------------------------------------------------
ReplayInit ==
    /\ mem \in Memory /\ saved = None
    /\ alive = TRUE /\ durable = mem /\ session = None /\ stored = None
    /\ handlers = 0 /\ restarts = 0

\* Refused while another session is active or a handler is running.
replay_start ==
    /\ session = None /\ saved = None
    /\ session' = [log |-> <<>>, sequence |-> 0, failed |-> FALSE, initial |-> mem,
             expected |-> None, mode |-> "RECORD"]
    /\ UNCHANGED <<mem, saved, alive, durable, stored, handlers, restarts>>

replay_stop ==
    /\ session # None /\ saved = None
    /\ session' = None
    /\ UNCHANGED <<mem, saved, alive, durable, stored, handlers, restarts>>

\* A handler that fails, by a trap, a refused record, an exit or a commit that
\* does not reach the disk, is undone and ends the component.

\* Mutant: the recording of an undone handler is kept.
FailUnmarked(ss) ==
    /\ mem' = IF saved = None THEN mem ELSE saved
    /\ session' = ss /\ saved' = None /\ alive' = FALSE

FailReplay(ss) ==
    /\ mem' = IF saved = None THEN mem ELSE saved
    /\ session' = IF ss = None THEN None ELSE [ss EXCEPT !.failed = TRUE]
    /\ saved' = None /\ alive' = FALSE

\* scheduler_step up to the guest's first instruction.
BeginHandler(timer) ==
    /\ alive /\ saved = None /\ handlers < MaxHandlers
    /\ handlers' = handlers + 1
    /\ IF session # None /\ ~Admits(session)
       THEN FailReplay(session)
       ELSE /\ saved' = mem /\ mem' = Enter(mem, timer) /\ UNCHANGED alive
            /\ session' = IF session = None THEN session
                    ELSE Append1(session, Handler, timer, <<>>, <<>>, 0)
    /\ UNCHANGED <<durable, stored, restarts>>

\* One system call of the running handler: captured, run live, recorded.
\* The input span is captured before the call can overwrite it.
Recorded(k, before, after, result) ==
    Append1(session, k, before.acc, Input(k, before), Output(k, after), result)

Call(result, buf, aux) ==
    /\ saved # None /\ Program[mem.acc] # "return"
    /\ LET k == Program[mem.acc]
           after == [mem EXCEPT !.buf = IF Writes(k) THEN buf ELSE @,
                                !.aux = IF WritesAux(k) THEN aux ELSE @]
       IN /\ (~Writes(k) => buf = mem.buf) /\ (~WritesAux(k) => aux = mem.aux)
          /\ IF k = "exit" \/ (session # None /\ ~Admits(session))
             THEN FailReplay(session)
             ELSE /\ mem' = Continue(after, result) /\ UNCHANGED <<saved, alive>>
                  /\ session' = IF session = None THEN session ELSE Recorded(k, mem, after, result)
    /\ UNCHANGED <<durable, stored, handlers, restarts>>

\* The handler has returned and the domain's batch is committed.
EndHandler ==
    /\ saved # None /\ Program[mem.acc] = "return"
    /\ saved' = None /\ durable' = mem
    /\ UNCHANGED <<mem, alive, session, stored, handlers, restarts>>

\* The guest traps, or the batch is not committed.
FailHandler ==
    /\ saved # None
    /\ FailReplay(session)
    /\ UNCHANGED <<durable, stored, handlers, restarts>>

\* replay_verify returns to record mode with the cursor's sequence; a copy
\* that strays from the log fails the session.
AfterVerify(ok) ==
    [session EXCEPT !.sequence = Len(session.log), !.failed = ~ok, !.mode = "RECORD"]

replay_verify ==
    /\ session # None /\ saved = None /\ ~session.failed /\ replay_log_validate(session.log)
    /\ session' = AfterVerify(Completes(Play(session.initial, session.log)))
    /\ UNCHANGED <<mem, saved, alive, durable, stored, handlers, restarts>>

\* Only a good recording, made by this session, between two handlers.
Savable ==
    /\ session # None /\ saved = None /\ session.expected = None
    /\ ~session.failed /\ replay_log_validate(session.log)

\* The four objects are one batch of the store.
replay_save ==
    /\ Savable
    /\ stored' = [initial |-> session.initial, log |-> session.log, final |-> mem]
    /\ UNCHANGED <<mem, saved, alive, durable, session, handlers, restarts>>

replay_load ==
    /\ session = None /\ saved = None /\ stored # None /\ replay_log_validate(stored.log)
    /\ session' = [log |-> stored.log, sequence |-> 0, failed |-> FALSE,
             initial |-> stored.initial, expected |-> stored.final, mode |-> "RECORD"]
    /\ UNCHANGED <<mem, saved, alive, durable, stored, handlers, restarts>>

\* Power fails; the component is resumed from its last committed state.
Restart ==
    /\ restarts < MaxRestarts
    /\ restarts' = restarts + 1
    /\ mem' = durable /\ saved' = None /\ alive' = TRUE /\ session' = None
    /\ UNCHANGED <<durable, stored, handlers>>

ReplayNext ==
    \/ replay_start \/ replay_stop \/ replay_verify \/ replay_save \/ replay_load
    \/ \E timer \in {0, 1} : BeginHandler(timer)
    \/ \E result \in Values, buf \in Values, aux \in Values : Call(result, buf, aux)
    \/ EndHandler \/ FailHandler \/ Restart

ReplaySpec == ReplayInit /\ [][ReplayNext]_replayVars

-----------------------------------------------------------------------------
ReplayTypeOK ==
    /\ mem \in Memory /\ saved \in Memory \cup {None} /\ durable \in Memory
    /\ alive \in BOOLEAN
    /\ session # None =>
         /\ session.mode = "RECORD" /\ session.failed \in BOOLEAN
         /\ Len(session.log) <= LogCapacity /\ session.initial \in Memory
         /\ session.expected \in Memory \cup {None}

\* Whatever handlers ran, whatever their calls returned, and whichever of
\* them failed, a recording that is not marked failed replays: from the
\* initial memory the log alone drives the guest to the owner's live memory
\* (replay_start, replay_after and scheduler_step against replay_verify).
RecordingVerifies ==
    session # None /\ saved = None /\ ~session.failed /\ session.expected = None /\ session.log # <<>> =>
        /\ replay_log_validate(session.log)
        /\ Reproduces(session.initial, session.log, Expected(session))

\* The recording on disk replays after any restart, whatever the component
\* has done since it was saved, and whatever sessions followed (replay_save's
\* checks and its single batch, against replay_load and replay_verify).
SavedVerifies ==
    stored # None =>
        /\ replay_log_validate(stored.log)
        /\ Reproduces(stored.initial, stored.log, stored.final)

\* Recordings replay to what ran, the one being made and the one on disk.
RecordingsVerify == ReplayTypeOK /\ RecordingVerifies /\ SavedVerifies
=============================================================================
