---------------------------- MODULE StreamIngest -----------------------------
(***************************************************************************)
(* The slot phones push their pictures into (stream_ingest.py), which also *)
(* pulls from an address an operator can change while it runs.  The loop   *)
(* of its thread is cut where it reads what the HTTP handlers write.       *)
(***************************************************************************)
CONSTANTS
    Targets,    \* addresses the operator may set
    None

VARIABLES
    up,         \* the addresses that can be opened
    ingest      \* the object's fields, and its thread

IngestTypeOK ==
    /\ up \subseteq Targets
    /\ ingest \in [pc : {"top", "clear", "open", "check", "read", "close", "dead"},
                   url : Targets \cup {None},      \* primary_url
                   target : Targets \cup {None},   \* what the thread took of it
                   cap : Targets \cup {None},      \* the open capture
                   force : BOOLEAN,                \* _force_reconnect
                   connected : BOOLEAN,            \* is_connected
                   push : BOOLEAN,                 \* a direct upload less than 3 s ago
                   shown : {"placeholder", "pull", "push"}]

IngestInit ==
    /\ up \in SUBSET Targets
    /\ ingest \in [pc : {"top"}, url : Targets \cup {None}, target : {None}, cap : {None},
                   force : {FALSE}, connected : {FALSE}, push : {FALSE}, shown : {"placeholder"}]

\* update_target_url
Update(u) ==
    /\ ingest' = [ingest EXCEPT !.url = u, !.force = TRUE, !.cap = None,
                                !.connected = FALSE, !.shown = "placeholder"]
    /\ UNCHANGED up

\* ingest_direct_frame
Push ==
    /\ ingest' = [ingest EXCEPT !.push = TRUE, !.connected = TRUE, !.shown = "push"]
    /\ UNCHANGED up

PushEnds == ingest.push /\ ingest' = [ingest EXCEPT !.push = FALSE] /\ UNCHANGED up

Step(pc, next) == ingest.pc = pc /\ ingest' = next /\ UNCHANGED up
At(pc) == [ingest EXCEPT !.pc = pc]

\* _capture_loop: waits while pictures are pushed, or without an address.
Top ==
    /\ ~ingest.push /\ ingest.url # None
    /\ Step("top", [At("clear") EXCEPT !.target = ingest.url, !.shown = "placeholder"])

Clear == Step("clear", [At("open") EXCEPT !.force = FALSE])

Open ==
    /\ ingest.target \in up
    /\ Step("open", [At("check") EXCEPT !.cap = ingest.target, !.connected = TRUE])

OpenFails == ingest.target \notin up /\ Step("open", At("top"))

StaysOpen(i) == ~i.force /\ ~i.push
Check == Step("check", At(IF StaysOpen(ingest) THEN "read" ELSE "close"))

\* self.cap.read(): None has no read.
Read ==
    \/ ingest.cap = None /\ Step("read", At("dead"))
    \/ /\ ingest.cap \in up
       /\ Step("read", [At("check") EXCEPT !.shown = "pull"])
    \/ ingest.cap \in Targets \ up /\ Step("read", At("close"))

Close == Step("close", [At("top") EXCEPT !.connected = FALSE, !.cap = None])

IngestStep == Top \/ Clear \/ Open \/ OpenFails \/ Check \/ Read \/ Close

UpChanges == up' \in SUBSET Targets \ {up} /\ UNCHANGED ingest
=============================================================================
