----------------------------- MODULE MjpegPuller -----------------------------
(***************************************************************************)
(* The thread that pulls one phone or tablet into the gateway              *)
(* (mjpeg_puller.py): it asks where the device is, tries its addresses in  *)
(* turn, reads frames while they come, and moves on from an address that   *)
(* answers but sends none.  The bytes of the stream, the figures taken     *)
(* from the headers of its parts and the length of the waits are left out. *)
(***************************************************************************)
LOCAL INSTANCE Naturals
LOCAL INSTANCE Sequences

CONSTANTS
    Urls,       \* the fixed candidates of video_sources.json, in order
    Lan,        \* addresses "tailscale ping" may find the device at
    None

\* What VideoSources assumes of them.
PullerConstants == Urls # <<>> /\ None \notin Lan

VARIABLES
    mode,       \* what each address does: "off", "mute" (accepts, sends nothing), "serve"
    puller      \* the thread and the frame it holds

Addresses == Lan \cup {Urls[i] : i \in DOMAIN Urls}

PullerTypeOK ==
    /\ mode \in [Addresses -> {"off", "mute", "serve"}]
    /\ puller \in [at : Addresses \cup {None},     \* connected to
                   idx : Nat, got : BOOLEAN,       \* a frame came on this connection
                   found : Lan \cup {None},        \* _discovered_url
                   fresh : BOOLEAN]                \* the latest frame is not stale

PullerInit ==
    /\ mode \in [Addresses -> {"off", "mute", "serve"}]
    /\ puller = [at |-> None, idx |-> 0, got |-> FALSE, found |-> None, fresh |-> FALSE]

\* _candidates: what was found first, then the fixed ones.
Candidates(found) == (IF found = None THEN <<>> ELSE <<found>>) \o Urls

\* idx only counts modulo the number of candidates, which is one of two.
Cycle == Len(Urls) * (Len(Urls) + 1)
After(idx) == (idx + 1) % Cycle

\* discovered_url: the ping answers or it does not, and the device may have moved.
Discovered == Lan \cup {None}

\* One turn of _run, up to a connection or a failure to connect.
Try ==
    /\ puller.at = None
    /\ \E found \in Discovered \cup {puller.found} :        \* asked again, or within its TTL
        LET candidates == Candidates(found)
            size == Len(candidates)
            address == candidates[(puller.idx % size) + 1]
            next == After(puller.idx)
        IN \/ /\ mode[address] # "off"
              /\ puller' = [puller EXCEPT !.at = address, !.got = FALSE, !.found = found]
           \/ /\ mode[address] = "off"
              /\ IF next % size = 0                          \* all failed: ask again
                 THEN \E again \in Discovered :
                        puller' = [puller EXCEPT !.idx = next, !.found = again]
                 ELSE puller' = [puller EXCEPT !.idx = next, !.found = found]
    /\ UNCHANGED mode

\* _consume
Receive ==
    /\ puller.at # None /\ mode[puller.at] = "serve"
    /\ puller' = [puller EXCEPT !.got = TRUE, !.fresh = TRUE]
    /\ UNCHANGED mode

MutStays(p) == p.idx               \* connected is good enough

\* An address that gave nothing is left; one that did is tried again.
NextIdx(p) == IF p.got THEN p.idx ELSE After(p.idx)

\* The connection is closed, or nothing is read for connect_timeout_s.
Break ==
    /\ puller.at # None /\ mode[puller.at] # "serve"
    /\ puller' = [puller EXCEPT !.at = None, !.idx = NextIdx(puller)]
    /\ UNCHANGED mode

PullerStep == Try \/ Receive \/ Break

\* stale_after_s without a frame; frames come faster while an address serves.
PullerAges ==
    /\ puller.fresh /\ ~(puller.at # None /\ mode[puller.at] = "serve")
    /\ puller' = [puller EXCEPT !.fresh = FALSE]
    /\ UNCHANGED mode

ModeChanges ==
    /\ \E a \in Addresses, m \in {"off", "mute", "serve"} :
        m # mode[a] /\ mode' = [mode EXCEPT ![a] = m]
    /\ UNCHANGED puller

\* get_latest_jpeg: a stale frame is not given out.
PullerConnected == puller.fresh
=============================================================================
