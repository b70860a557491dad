----------------------------- MODULE FrameLink ------------------------------
(***************************************************************************)
(* What reading frames off a transport promises: the frames of the peer    *)
(* are read whole, in order, without loss or repetition, up to the first   *)
(* damaged one, which is never read and nothing behind it either; the      *)
(* reader stops there, or where the transport fails, and nowhere else.     *)
(* Nothing is said of bytes, buffers, polls or wake-ups.                   *)
(***************************************************************************)
EXTENDS Sequences

CONSTANTS
    Message,  \* what a frame can carry
    Damaged   \* a frame that has lost a byte or had one changed

VARIABLES
    sent,  \* frames posted and not read
    got,   \* messages read, in order
    ended  \* "no", "damage" or "failure"

frameVars == <<sent, got, ended>>

FrameInit ==
    /\ sent = <<>>
    /\ got = <<>>
    /\ ended = "no"

PostFrame(frame) ==
    /\ sent' = Append(sent, frame)
    /\ UNCHANGED <<got, ended>>

ReadFrame ==
    /\ ended = "no"
    /\ sent # <<>> /\ Head(sent) \in Message
    /\ got' = Append(got, Head(sent))
    /\ sent' = Tail(sent)
    /\ UNCHANGED ended

MeetDamage ==
    /\ ended = "no"
    /\ sent # <<>> /\ Head(sent) = Damaged
    /\ ended' = "damage"
    /\ UNCHANGED <<sent, got>>

FailToRead ==
    /\ ended = "no"
    /\ ended' = "failure"
    /\ UNCHANGED <<sent, got>>

FrameNext ==
    \/ \E frame \in Message \cup {Damaged} : PostFrame(frame)
    \/ ReadFrame
    \/ MeetDamage
    \/ FailToRead

FrameSpec == FrameInit /\ [][FrameNext]_frameVars

=============================================================================
