------------------------------- MODULE ForgeSend -------------------------------
(***************************************************************************)
(* How cesarops-forge-v2 runs one task at a time: POST /send takes the     *)
(* send_busy flag, prepares the configuration for its lane, spawns a       *)
(* background run and hands the flag's guard to it; the run goes through   *)
(* the rounds of loop_engine::run until it has an answer, was stopped or   *)
(* panicked.  Beside it: Stop, Clear, the page's polling of                *)
(* /validate/ping, clients that hang up, and whoever rewrites the routing  *)
(* files, which calls and polls reload into the configuration.             *)
(*                                                                         *)
(* The configuration is behind a tokio RwLock, which is fair: whoever asks *)
(* waits for all who asked before, but for readers behind readers.  A run  *)
(* holds it for reading from its first round to its last, and its tools    *)
(* read it once more.                                                      *)
(***************************************************************************)
EXTENDS Integers, SequencesExt

CONSTANTS Calls,      \* calls of POST /send ever received
          Pings,      \* clients that poll GET /validate/ping
          Lanes,      \* coder endpoints of the lanes
          Presets,    \* coder endpoints that the routing files may name
          MaxRounds,  \* MAX_TOOL_ROUNDS
          MaxClears,  \* bound: calls of /clear
          MaxStops,   \* bound: calls of /interrupt
          MaxPanics,  \* bound: runs that panic
          MaxRewrites \* bound: changes of the routing files

ASSUME ForgeAssumption == /\ Calls \cap Pings = {}
                          /\ {MaxRounds, MaxClears, MaxStops, MaxPanics, MaxRewrites} \subseteq Nat

VARIABLES
  busy,       \* send_busy
  interrupt,  \* the Stop flag
  files,      \* the coder endpoint that the routing files name
  named,      \* what they named up to now (history)
  coder,      \* coder_url of the shared configuration
  lockq,      \* the configuration's lock: who holds it and who waits, oldest first
  pc,         \* where a call's handler is
  lane,       \* the endpoint of its lane
  tune,       \* whether its message starts with /tune
  saved,      \* its saved_coder
  resolved,   \* what a call or poll read in the routing files, for its refresh_routing
  run,        \* where its background run is
  round,      \* rounds the run has done
  ping,       \* where the answer to a poll is
  clearing,   \* whether a /clear is between its two stores
  clears, stops, panics, rewrites

vars == <<busy, interrupt, files, named, resolved, coder, lockq, pc, lane, tune, saved, run, round,
          ping, clearing, clears, stops, panics, rewrites>>

routing == <<files, named, resolved, rewrites>>
request == <<lane, tune>>
counts == <<clears, stops, panics>>
operator == <<clearing, clears, stops>>

\* "interrupt" before the Stop flag is taken down, "busy" before the send_busy
\* exchange, "refresh" in refresh_routing, "point" before the configuration is
\* pointed at the lane, "spawn" before the run is spawned (or the tuned prompt
\* could not be had), "restore" before the configuration is restored, "drop"
\* before a guard the handler still has is dropped.
HandlerStages == {"idle", "interrupt", "busy", "refresh", "point", "spawn", "restore", "drop",
                  "returned", "refused", "gone"}

\* "point" before the run points the configuration at its lane, "load" before it
\* takes it for reading; "check", "generate" and "tool" the parts of a round; then
\* "restore" and "drop" as above.
RunStages == {"none", "point", "load", "check", "generate", "tool", "restore", "drop", "ended"}
Rounds == {"check", "generate", "tool"}

Writes(c, who) == [of |-> c, by |-> who, write |-> TRUE]
Reads(c, who) == [of |-> c, by |-> who, write |-> FALSE]
Entries == [of : Calls \cup Pings, by : {"handler", "run", "tool", "ping"}, write : BOOLEAN]

Init ==
  /\ busy = FALSE /\ interrupt = FALSE
  /\ files \in Presets /\ named = {files} /\ coder = files
  /\ resolved = [x \in Calls \cup Pings |-> files]
  /\ lockq = <<>>
  /\ pc = [c \in Calls |-> "idle"]
  /\ lane = [c \in Calls |-> files]
  /\ tune = [c \in Calls |-> FALSE]
  /\ saved = [c \in Calls |-> files]
  /\ run = [c \in Calls |-> "none"]
  /\ round = [c \in Calls |-> 0]
  /\ ping = [p \in Pings |-> "idle"]
  /\ clearing = FALSE
  /\ clears = 0 /\ stops = 0 /\ panics = 0 /\ rewrites = 0

Handler(c, stage) == pc' = [pc EXCEPT ![c] = stage]
Runner(c, stage) == run' = [run EXCEPT ![c] = stage]
Poll(p, stage) == ping' = [ping EXCEPT ![p] = stage]

-------------------------------------------------------------------------------
(* The configuration's lock.                                               *)

\* What a task asks for where it is.
Wanted == {Writes(c, "handler") : c \in {d \in Calls : pc[d] \in {"refresh", "point", "restore"}}}
          \cup {Writes(c, "run") : c \in {d \in Calls : run[d] \in {"point", "restore"}}}
          \cup {Reads(c, "run") : c \in {d \in Calls : run[d] = "load"}}
          \cup {Reads(c, "tool") : c \in {d \in Calls : run[d] = "tool"}}
          \cup {Writes(p, "ping") : p \in {q \in Pings : ping[q] = "refresh"}}
          \cup {Reads(p, "ping") : p \in {q \in Pings : ping[q] = "read"}}

Asked(e) == e \in ToSet(lockq)
Granted(e) == \E i \in DOMAIN lockq : /\ lockq[i] = e
                                      /\ IF e.write THEN i = 1
                                         ELSE \A j \in 1..(i - 1) : ~lockq[j].write
Waits(e) == Asked(e) /\ ~Granted(e)
Without(e) == RemoveFirst(lockq, e)

Ask(e) == /\ e \in Wanted /\ ~Asked(e)
          /\ lockq' = Append(lockq, e)
          /\ UNCHANGED <<busy, interrupt, coder, pc, routing, request, saved, run, round, ping,
                         operator, panics>>

\* A grant that is used at once: set the coder endpoint, and let go.
Set(e, url) == /\ Granted(e)
               /\ coder' = url
               /\ lockq' = Without(e)

-------------------------------------------------------------------------------
(* The handler of POST /send.                                              *)

\* Up to the gate of the operator's specification, which may refuse.
Receive(c, l, t) ==
  /\ pc[c] = "idle"
  /\ \E stage \in {"interrupt", "refused"} : Handler(c, stage)
  /\ lane' = [lane EXCEPT ![c] = l]
  /\ tune' = [tune EXCEPT ![c] = t]
  /\ UNCHANGED <<busy, interrupt, coder, lockq, routing, saved, run, round, ping, operator, panics>>

ClearInterrupt(c) == /\ pc[c] = "interrupt"
                     /\ interrupt' = FALSE
                     /\ Handler(c, "busy")
                     /\ UNCHANGED <<busy, coder, lockq, routing, request, saved, run, round, ping,
                                    operator, panics>>

\* The exchange; then refresh_routing reads the files before it waits for the lock.
TakeBusy(c) ==
  /\ pc[c] = "busy"
  /\ IF busy THEN Handler(c, "refused") /\ UNCHANGED <<busy, resolved>>
     ELSE /\ Handler(c, "refresh") /\ busy' = TRUE
          /\ resolved' = [resolved EXCEPT ![c] = files]
  /\ UNCHANGED <<interrupt, files, named, rewrites, coder, lockq, request, saved, run, round,
                 ping, operator, panics>>

\* The rest of refresh_routing; then the guard is made.
Refresh(c) == /\ pc[c] = "refresh"
              /\ Set(Writes(c, "handler"), resolved[c])
              /\ Handler(c, "point")
              /\ UNCHANGED <<busy, interrupt, routing, request, saved, run, round, ping, operator,
                             panics>>

Point(c) == /\ pc[c] = "point"
            /\ Set(Writes(c, "handler"), lane[c])
            /\ saved' = [saved EXCEPT ![c] = coder]
            /\ Handler(c, "spawn")
            /\ UNCHANGED <<busy, interrupt, routing, request, run, round, ping, operator, panics>>

\* /tune spawns nothing if the tuner cannot be reached.
Spawn(c) == /\ pc[c] = "spawn"
            /\ Handler(c, "restore")
            /\ \/ Runner(c, "point")
               \/ tune[c] /\ UNCHANGED run
            /\ UNCHANGED <<busy, interrupt, coder, lockq, routing, request, saved, round, ping,
                           operator, panics>>

\* Wrong on purpose: the guard stays with the handler.
KeepsGuard_Always(c) == pc[c] \in {"point", "spawn", "restore", "drop"}

\* The guard went with the run, if one was spawned.
KeepsGuard(c) == \/ pc[c] \in {"point", "spawn"}
                 \/ pc[c] \in {"restore", "drop"} /\ run[c] = "none"

Restore(c) == /\ pc[c] = "restore"
              /\ Set(Writes(c, "handler"), saved[c])
              /\ Handler(c, IF KeepsGuard(c) THEN "drop" ELSE "returned")
              /\ UNCHANGED <<busy, interrupt, routing, request, saved, run, round, ping, operator,
                             panics>>

Return(c) == /\ pc[c] = "drop"
             /\ busy' = FALSE
             /\ Handler(c, "returned")
             /\ UNCHANGED <<interrupt, coder, lockq, routing, request, saved, run, round, ping,
                            operator, panics>>

\* Where the handler awaits something: the lock, or other services.
Suspended(c) == \/ pc[c] \in {"point", "spawn"}
                \/ pc[c] = "refresh" /\ Waits(Writes(c, "handler"))
                \/ pc[c] = "restore" /\ (tune[c] \/ Waits(Writes(c, "handler")))

\* The client hangs up and the handler is dropped, with its place in the lock's
\* queue and its guard, if it has one yet.
HangUp(c) == /\ Suspended(c)
             /\ Handler(c, "gone")
             /\ busy' = IF KeepsGuard(c) THEN FALSE ELSE busy
             /\ lockq' = Without(Writes(c, "handler"))
             /\ UNCHANGED <<interrupt, coder, routing, request, saved, run, round, ping, operator,
                            panics>>

-------------------------------------------------------------------------------
(* The background run.                                                     *)

RunPoint(c) == /\ run[c] = "point"
               /\ Set(Writes(c, "run"), lane[c])
               /\ Runner(c, "load")
               /\ UNCHANGED <<busy, interrupt, pc, routing, request, saved, round, ping, operator,
                              panics>>

\* From here on the run has the configuration for reading.
Load(c) == /\ run[c] = "load"
           /\ Granted(Reads(c, "run"))
           /\ Runner(c, "check")
           /\ UNCHANGED <<busy, interrupt, coder, lockq, pc, routing, request, saved, round, ping,
                          operator, panics>>

\* Wrong on purpose: the configuration is restored while it is still held.
Finish_Holding(c) == Runner(c, "restore") /\ UNCHANGED lockq

Finish(c) == /\ Runner(c, "restore")
             /\ lockq' = Without(Reads(c, "run"))

\* Wrong on purpose: one round too many.
Check_OneMore(c) ==
  /\ run[c] = "check"
  /\ \/ round[c] > MaxRounds /\ Finish(c) /\ UNCHANGED interrupt
     \/ round[c] <= MaxRounds /\ interrupt /\ interrupt' = FALSE /\ Finish(c)
     \/ round[c] <= MaxRounds /\ ~interrupt /\ Runner(c, "generate") /\ UNCHANGED <<interrupt,
                                                                                    lockq>>
  /\ UNCHANGED <<busy, coder, pc, routing, request, saved, round, ping, operator, panics>>

\* The head of a round: no rounds left, a Stop, or the next prompt.
Check(c) ==
  /\ run[c] = "check"
  /\ \/ round[c] >= MaxRounds /\ Finish(c) /\ UNCHANGED interrupt
     \/ round[c] < MaxRounds /\ interrupt /\ interrupt' = FALSE /\ Finish(c)
     \/ round[c] < MaxRounds /\ ~interrupt /\ Runner(c, "generate") /\ UNCHANGED <<interrupt,
                                                                                   lockq>>
  /\ UNCHANGED <<busy, coder, pc, routing, request, saved, round, ping, operator, panics>>

\* The model answers (or the run gives up), calls a tool, or must try again.
Generate(c) ==
  /\ run[c] = "generate"
  /\ \/ Finish(c) /\ UNCHANGED round
     \/ Runner(c, "tool") /\ UNCHANGED <<round, lockq>>
     \/ Runner(c, "check") /\ round' = [round EXCEPT ![c] = @ + 1] /\ UNCHANGED lockq
  /\ UNCHANGED <<busy, interrupt, coder, pc, routing, request, saved, ping, operator, panics>>

\* A tool, or the diagnosis of a bad answer, reads the configuration.
Tool(c) == /\ run[c] = "tool"
           /\ Granted(Reads(c, "tool"))
           /\ lockq' = Without(Reads(c, "tool"))
           /\ Runner(c, "check")
           /\ round' = [round EXCEPT ![c] = @ + 1]
           /\ UNCHANGED <<busy, interrupt, coder, pc, routing, request, saved, ping, operator,
                          panics>>

\* A panic skips the restoring, but not the guard.
Panic(c) == /\ run[c] \in Rounds
            /\ panics < MaxPanics /\ panics' = panics + 1
            /\ Runner(c, "drop")
            /\ lockq' = RemoveFirst(Without(Reads(c, "run")), Reads(c, "tool"))
            /\ UNCHANGED <<busy, interrupt, coder, pc, routing, request, saved, round, ping,
                           operator>>

\* Wrong on purpose: the coder endpoint stays that of the lane.
RunRestore_Skip(c) == /\ run[c] = "restore"
                      /\ Set(Writes(c, "run"), lane[c])
                      /\ Runner(c, "drop")
                      /\ UNCHANGED <<busy, interrupt, pc, routing, request, saved, round, ping,
                                     operator, panics>>

RunRestore(c) == /\ run[c] = "restore"
                 /\ Set(Writes(c, "run"), saved[c])
                 /\ Runner(c, "drop")
                 /\ UNCHANGED <<busy, interrupt, pc, routing, request, saved, round, ping,
                                operator, panics>>

RunDrop(c) == /\ run[c] = "drop"
              /\ busy' = FALSE
              /\ Runner(c, "ended")
              /\ UNCHANGED <<interrupt, coder, lockq, pc, routing, request, saved, round, ping,
                             operator, panics>>

-------------------------------------------------------------------------------
(* The page.                                                               *)

\* Its refresh_routing, as in TakeBusy.
PingStart(p) ==
  /\ ping[p] = "idle"
  /\ Poll(p, "refresh")
  /\ resolved' = [resolved EXCEPT ![p] = files]
  /\ UNCHANGED <<busy, interrupt, files, named, rewrites, coder, lockq, pc, request, saved, run,
                 round, operator, panics>>

PingRefresh(p) == /\ ping[p] = "refresh"
                  /\ Set(Writes(p, "ping"), resolved[p])
                  /\ Poll(p, "read")
                  /\ UNCHANGED <<busy, interrupt, pc, routing, request, saved, run, round,
                                 operator, panics>>

PingRead(p) == /\ ping[p] = "read"
               /\ Granted(Reads(p, "ping"))
               /\ lockq' = Without(Reads(p, "ping"))
               /\ Poll(p, "idle")
               /\ UNCHANGED <<busy, interrupt, coder, pc, routing, request, saved, run, round,
                              operator, panics>>

PingHangUp(p) == /\ Waits(Writes(p, "ping")) \/ Waits(Reads(p, "ping"))
                 /\ lockq' = RemoveFirst(Without(Writes(p, "ping")), Reads(p, "ping"))
                 /\ Poll(p, "idle")
                 /\ UNCHANGED <<busy, interrupt, coder, pc, routing, request, saved, run, round,
                                operator, panics>>

\* save_routing_state and apply_routing_preset write the files, and nothing else.
Rewrite(url) ==
  /\ url # files /\ rewrites < MaxRewrites /\ rewrites' = rewrites + 1
  /\ files' = url /\ named' = named \cup {url}
  /\ UNCHANGED <<busy, interrupt, resolved, coder, lockq, pc, request, saved, run, round, ping,
                 operator, panics>>

Stop == /\ stops < MaxStops /\ stops' = stops + 1
        /\ interrupt' = TRUE
        /\ UNCHANGED <<busy, coder, lockq, pc, routing, request, saved, run, round, ping,
                       clearing, clears, panics>>

\* clear: the Stop flag, then send_busy.
ClearStart == /\ clears < MaxClears /\ clears' = clears + 1 /\ ~clearing
              /\ interrupt' = FALSE
              /\ clearing' = TRUE
              /\ UNCHANGED <<busy, coder, lockq, pc, routing, request, saved, run, round, ping,
                             stops, panics>>

ClearBusy == /\ clearing /\ clearing' = FALSE
             /\ busy' = FALSE
             /\ UNCHANGED <<interrupt, coder, lockq, pc, routing, request, saved, run, round,
                            ping, counts>>

-------------------------------------------------------------------------------
HandlerStep(c) == \/ ClearInterrupt(c) \/ TakeBusy(c) \/ Refresh(c) \/ Point(c) \/ Spawn(c)
                  \/ Restore(c) \/ Return(c)

RunStep(c) == \/ RunPoint(c) \/ Load(c) \/ Check(c) \/ Generate(c) \/ Tool(c) \/ RunRestore(c)
              \/ RunDrop(c)

Next == \/ \E e \in Wanted : Ask(e)
        \/ \E c \in Calls : \/ \E l \in Lanes, t \in BOOLEAN : Receive(c, l, t)
                            \/ HandlerStep(c) \/ HangUp(c) \/ RunStep(c) \/ Panic(c)
        \/ \E p \in Pings : PingStart(p) \/ PingRefresh(p) \/ PingRead(p) \/ PingHangUp(p)
        \/ \E url \in Presets : Rewrite(url)
        \/ Stop \/ ClearStart \/ ClearBusy

Spec == Init /\ [][Next]_vars

\* The runtime schedules every task that can go on.  A request to a model, a service
\* or a program need not end: run_command, cargo_check and think_harder set no
\* timeout.  Nothing makes a client give up.
PatientSpec ==
  /\ Spec
  /\ \A e \in Entries : WF_vars(Ask(e))
  /\ \A c \in Calls : /\ WF_vars(HandlerStep(c))
                       /\ WF_vars(RunPoint(c) \/ Load(c) \/ Check(c) \/ RunRestore(c) \/ RunDrop(c))
  /\ \A p \in Pings : WF_vars(PingRefresh(p)) /\ WF_vars(PingRead(p))
  /\ WF_vars(ClearBusy)
===============================================================================
