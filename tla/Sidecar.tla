------------------------------- MODULE Sidecar -------------------------------
(***************************************************************************)
(* The figures a publisher sends in the headers of its pictures, and what  *)
(* the puller keeps of them: frames are numbered within a publisher's      *)
(* session (host_camera_publisher.py), and a jump in the numbers is a loss *)
(* (mjpeg_puller.py _note_sidecar).  A session that has ended does not     *)
(* come back: sessions are counted.  The other figures are left out.       *)
(***************************************************************************)
LOCAL INSTANCE Integers

CONSTANTS
    Publishers,     \* the publishers behind the addresses of the puller
    MaxSessions,    \* how many times one is started, in all (bound)
    MaxSeq,         \* frames of one session (bound)
    None

VARIABLES
    publisher,      \* what each publisher will number the next frame
    pulled,         \* the publisher the puller is connected to, and what it kept
    heard           \* for each session, the numbers received

\* What VideoSources assumes of them.
SidecarConstants == MaxSessions \in Nat /\ MaxSeq \in Nat

Sessions == 1..MaxSessions
Nothing == [session |-> None, seq |-> None]

SidecarTypeOK ==
    /\ publisher \in [Publishers -> [session : Sessions \cup {None}, seq : 0..MaxSeq]]
    /\ pulled \in [from : Publishers \cup {None},
                   sent : 0..MaxSeq,                  \* last_seq of the connection
                   session : Sessions \cup {None},    \* _publisher_session
                   seq : 0..MaxSeq \cup {None},       \* _frame_seq
                   capture : BOOLEAN,                 \* _capture_clock_ms is not None
                   lost : Nat]                        \* _frames_lost
    /\ heard \in [Sessions -> SUBSET (1..MaxSeq)]

SidecarInit ==
    /\ publisher = [p \in Publishers |-> [session |-> None, seq |-> 0]]
    /\ pulled = [from |-> None, sent |-> 0, session |-> None, seq |-> None,
                 capture |-> FALSE, lost |-> 0]
    /\ heard = [s \in Sessions |-> {}]

Used == ({publisher[p].session : p \in Publishers} \ {None})
            \cup {s \in Sessions : heard[s] # {}}
NewSession == CHOOSE s \in Sessions \ Used : TRUE

\* Camera.__init__: a session of its own, numbers from the beginning.  The
\* connection of what ran before is gone.
Start(p) ==
    /\ Used # Sessions
    /\ publisher' = [publisher EXCEPT ![p] = [session |-> NewSession, seq |-> 0]]
    /\ pulled' = IF pulled.from = p THEN [pulled EXCEPT !.from = None] ELSE pulled
    /\ UNCHANGED heard

\* Camera._run: only a frame that goes out has a number.
Capture(p) ==
    /\ publisher[p].session # None /\ publisher[p].seq < MaxSeq
    /\ publisher' = [publisher EXCEPT ![p].seq = @ + 1]
    /\ UNCHANGED <<pulled, heard>>

Connect(p) ==
    /\ pulled.from # p /\ publisher[p].session # None
    /\ pulled' = [pulled EXCEPT !.from = p, !.sent = 0]
    /\ UNCHANGED <<publisher, heard>>

MutGap(old, meta) ==               \* numbers of different sessions are compared
    IF old.seq # None /\ meta.seq > old.seq + 1 THEN meta.seq - old.seq - 1 ELSE 0

\* The frames lost before this one.
Gap(old, meta) ==
    IF old.seq # None /\ meta.session = old.session /\ meta.seq > old.seq + 1
    THEN meta.seq - old.seq - 1 ELSE 0

\* _note_sidecar: without a number the old one stays, but not the session.
Note(old, meta) ==
    IF meta = Nothing THEN [old EXCEPT !.session = None, !.capture = FALSE]
    ELSE [old EXCEPT !.session = meta.session, !.seq = meta.seq, !.capture = TRUE,
                     !.lost = @ + Gap(old, meta)]

\* Handler.video sends the latest frame once: a slow reader skips some.
Receive ==
    LET p == pulled.from IN
    /\ p # None /\ publisher[p].seq > pulled.sent
    /\ LET meta == publisher[p] IN
        /\ pulled' = [Note(pulled, meta) EXCEPT !.sent = meta.seq]
        /\ heard' = [heard EXCEPT ![meta.session] = @ \cup {meta.seq}]
    /\ UNCHANGED publisher

\* A device whose pictures have no headers is behind another address.
ReceiveBare ==
    /\ pulled.from = None /\ (pulled.session # None \/ pulled.capture)
    /\ pulled' = Note(pulled, Nothing) /\ UNCHANGED <<publisher, heard>>

Disconnect == pulled.from # None /\ pulled' = [pulled EXCEPT !.from = None]
              /\ UNCHANGED <<publisher, heard>>

SidecarStep ==
    \/ \E p \in Publishers : Start(p) \/ Capture(p) \/ Connect(p)
    \/ Receive \/ ReceiveBare \/ Disconnect

(***************************************************************************)
(* No loss is reported that did not happen: not when the publisher starts  *)
(* again, not when the puller moves to another one and back, not after     *)
(* pictures without headers.  What is added are the numbers of one session *)
(* between the last one received and a later one, and none of a session's  *)
(* numbers is received after a later one was.                              *)
(***************************************************************************)
New(s) == heard'[s] \ heard[s]
GapIn(s, a, b) == a \in heard[s] /\ b \in New(s) /\ \A k \in heard[s] : k <= a

LossIsReal ==
    [][/\ \A s \in Sessions : \A k \in heard[s], b \in New(s) : k < b
       /\ pulled'.lost # pulled.lost =>
            \E s \in Sessions : \E a, b \in 1..MaxSeq :
                GapIn(s, a, b) /\ pulled'.lost = pulled.lost + (b - a - 1)]_<<pulled, heard>>
=============================================================================
