-------------------------- MODULE CaptureService --------------------------
(***************************************************************************)
(* What a capture command promises: a request for n samples is answered    *)
(* with n consecutive samples of the stream, or, when the hardware has     *)
(* raised its overflow flag, with at most n samples of any kind.           *)
(* A request may also stay unanswered; the promise that it does not is a   *)
(* liveness property of the implementation.                                *)
(***************************************************************************)
EXTENDS Naturals, Sequences

CONSTANTS Requests,      \* sample counts a client asks for
          Sample,        \* the samples of the stream
          Succ(_)        \* the sample that follows one

VARIABLES phase, want, reply, lossy

avars == <<phase, want, reply, lossy>>

AInit ==
    /\ phase = "idle"
    /\ want = 0
    /\ reply = <<>>
    /\ lossy = FALSE

Consecutive(s) == \A i \in 1 .. Len(s) - 1 : s[i + 1] = Succ(s[i])

Request(n) ==
    /\ phase = "idle"
    /\ phase' = "busy"
    /\ want' = n
    /\ reply' = <<>>
    /\ lossy' = FALSE

Lose ==
    /\ phase = "busy"
    /\ lossy' = TRUE
    /\ UNCHANGED <<phase, want, reply>>

\* reply' is constrained instead of enumerated: the set of replies is large.
Serve ==
    /\ phase = "busy"
    /\ phase' = "idle"
    /\ reply' \in Seq(Sample)
    /\ IF lossy THEN Len(reply') <= want
                ELSE Len(reply') = want /\ Consecutive(reply')
    /\ lossy' = FALSE
    /\ UNCHANGED want

ANext == (\E n \in Requests : Request(n)) \/ Lose \/ Serve

ASpec == AInit /\ [][ANext]_avars
============================================================================
