-------------------------------- MODULE MCLab --------------------------------
(***************************************************************************)
(* A page of a view and a query over two files, which MCColumn's writer    *)
(* makes: what the reader makes of some bytes is what Structure says.  Of  *)
(* a file, only the three bytes that are changed are kept, the rest being  *)
(* the same throughout: one of the first magic, which the reader refuses;  *)
(* one of the page's data, which it does not look at; and the offset of    *)
(* the page, to one below zero.                                            *)
(***************************************************************************)
EXTENDS LabPage, FiniteSets, TLC

\* What a state of the column's reader would be is of no concern here.
C == INSTANCE MCColumn WITH
    Plans <- {}, Written <- LAMBDA plan : <<>>, Crc32 <- LAMBDA bytes : <<0, 0, 0, 0>>,
    LongBits <- 16, IntBytes <- 1, MAX_DEPTH <- 10, FloatExponent <- 3, DoubleExponent <- 5,
    input <- 0, pc <- 0, chunk <- 0, leaf <- 0, todo <- 0, here <- 0, dictionary <- 0, pages <- 0,
    triples <- 0, stage <- 0, job <- 0, pos <- 0, out <- 0, tokens <- 0, codes <- 0

WrittenOf(v) ==
    C!MCWritten(C!Plan(C!Required, <<v>>, 1, 1, "plain", "INT32", "PLAIN", "UNCOMPRESSED", "whole", "none")).file

\* What the writer makes of a page of one value, but for three bytes.
File(bytes) ==
    <<bytes[1], 65, 82, 49, 22, 0, 22, 2, 22, 2, 44, 22, 2, 22, 0, 22, 6, 22, 6, 0, 0, bytes[2], 22, 4, 25, 44, 72,
      1, 109, 22, 2, 0, 22, 2, 38, 0, 24, 1, 118, 0, 22, 2, 25, 28, 25, 28, 38, 0, 28, 22, 2, 25, 21, 0, 25, 24,
      1, 118, 22, 0, 22, 2, 22, 0, 22, 36, 38, bytes[3], 0, 0, 22, 0, 22, 2, 0, 25, 28, 24, 1, 107, 24, 0, 0, 0,
      62, 0, 0, 0, 80, 65, 82, 49>>

MCViews == {"anatomy"}
MCScans == {"scan"}
MCContent == "tiny" :> <<80, 1, 8>> @@ "orders" :> <<80, 254, 8>>
MCInitial == [p \in {"anatomy", "scan"} |-> "tiny"]
MCOffered == [p \in MCViews |-> DOMAIN MCContent]
MCEdits == {[at |-> 1, to |-> 0], [at |-> 2, to |-> 9], [at |-> 3, to |-> 9]}

\* What the reader makes of what the files may come to hold.
MCOutcome(bytes) == CASE bytes[1] = 0 -> "refuses"
                      [] bytes[1] # 0 /\ bytes[3] = 9 -> "panics"
                      [] OTHER -> "ok"

Made(bytes) ==
    LET structure == C!StructureOf(File(bytes))
    IN  IF "panicked" \in DOMAIN structure THEN "panics" ELSE IF structure.ok THEN "ok" ELSE "refuses"

ASSUME ContentIsWritten ==
    File(MCContent["tiny"]) = WrittenOf(C!A) /\ File(MCContent["orders"]) = WrittenOf(C!B)
ASSUME OutcomesAreTheStructures ==
    \A bytes \in {80, 0} \X {1, 254, 9} \X {8, 9} : Made(bytes) = MCOutcome(bytes)
======
