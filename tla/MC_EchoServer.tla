--------------------------- MODULE MC_EchoServer ---------------------------
(* Seven clients, one after another: an upload to each channel, captures   *)
(* longer than the send buffer after each, two settings and a test.        *)
(* Captured samples are three bytes, those of an upload two, the send      *)
(* buffer holds four and replies are cut at multiples of two.              *)
EXTENDS EchoServer

Get(op, n) == <<[Raw EXCEPT !.op = op, !.n = n]>>
Change(key, n) == <<[Raw EXCEPT !.op = "SET", !.key = key, !.n = n]>>
Upload(ch, bytes) ==
    <<[Raw EXCEPT !.op = "SIZE", !.ch = ch, !.n = Len(bytes) \div WordBytes],
      [Raw EXCEPT !.op = "DATA", !.ch = ch]>>
        \o [i \in 1 .. Len(bytes) |-> [Raw EXCEPT !.n = bytes[i]]]

const_Scripts ==
    << Upload(1, <<11, 12, 13, 14>>),
       Get("TD", 3),
       Change("lo", 5),
       Upload(2, <<21, 22>>),
       Get("FD", 2),
       Get("TEST", 0),
       Change("profile", 2) >>

const_FftSizes == {2, 4}
const_Numbers == {0, 1}
const_Digits == {7}

\* The script of the run that shows a disagreement with the documentation.
upload_Scripts == << Upload(1, <<11, 12>>) >>
============================================================================
