--------------------------- MODULE MCStreamBuffer --------------------------
(***************************************************************************)
(* StreamBuffer: process-controlled streams, ones that can be resumed, one *)
(* that ends with its publisher.                                           *)
(***************************************************************************)
EXTENDS StreamBuffer
CONSTANTS pub1, pub2, prc1, prc2

Stream(mode, how, differs, n, who) ==
    [controlled |-> mode = "controlled", resume |-> mode = "resume", restart |-> how, changes |-> differs,
     hasty |-> FALSE, together |-> FALSE, sessions |-> n, order |-> who]

Streams == {Stream("controlled", "fixed", FALSE, 1, <<pub1, Viewer, prc1, prc2>>),
            Stream("controlled", "fixed", TRUE, 1, <<pub1, prc1>>),
            [Stream("controlled", "fixed", FALSE, 1, <<pub1, prc1, prc2>>) EXCEPT !.together = TRUE],
            Stream("controlled", "disabled", FALSE, 1, <<pub1, prc1, Viewer>>),
            Stream("resume", "fixed", FALSE, 2, <<pub1, prc1>>),
            Stream("resume", "delayed", TRUE, 2, <<pub1, pub2>>),
            Stream("plain", "delayed", FALSE, 1, <<pub1, prc1, Viewer>>)}
Processing == {Stream("controlled", "fixed", FALSE, 1, <<pub1, prc1, prc2>>)}

\* Three that show what else may happen, see the README
Hasty == {[s EXCEPT !.hasty = TRUE] : s \in Streams}
Together == {[s EXCEPT !.together = TRUE] : s \in Streams}
Again == {Stream("plain", "fixed", FALSE, 2, <<pub1, pub2>>)}
=============================================================================
