------------------------------ MODULE Windows -------------------------------
(***************************************************************************)
(* ad9361_find_opt of c/ad9361.c: the longest window of passing settings   *)
(* in a sweep, which the driver uses to choose the phase of the quadrature *)
(* calibration and the delays of the digital interface.                    *)
(***************************************************************************)
EXTENDS Integers, Sequences

\* One turn of the loop, for setting i: the window that is open (its start, or -1) and the
\* best one so far.
Scan(acc, i, x) ==
    LET open == [acc EXCEPT !.start = IF @ = -1 THEN i ELSE @, !.cnt = @ + 1]
        best == IF acc.cnt > acc.max THEN [acc EXCEPT !.max = acc.cnt, !.at = acc.start] ELSE acc
    IN  IF x THEN open ELSE [best EXCEPT !.start = -1, !.cnt = 0]

\* The locals after k turns.
Scanned(passes) ==
    LET scan[k \in 0 .. Len(passes)] ==
            IF k = 0 THEN [start |-> -1, cnt |-> 0, max |-> 0, at |-> 0]
            ELSE Scan(scan[k - 1], k - 1, passes[k])
    IN  scan

\* ad9361_find_opt: start and length of the window found in passes, a sequence of BOOLEAN.
FindOpt(passes) ==
    LET end == Scanned(passes)[Len(passes)]
    IN  IF end.cnt > end.max THEN [start |-> end.start, cnt |-> end.cnt]
        ELSE [start |-> end.at, cnt |-> end.max]
=============================================================================
