-------------------------- MODULE MCIngestPipeline --------------------------
(* What the runs discover, for the finite instances of IngestPipeline. *)
EXTENDS IngestPipeline

CONSTANTS r1, r2, a, b, c

It(content, v) == [content |-> content, verdict |-> v]
Connector(items) == [upload |-> FALSE, items |-> items]
Uploaded(item) == [upload |-> TRUE, items |-> <<item>>]
Both(first, second) == [r \in Runs |-> IF r = r1 THEN first ELSE second]

\* One run that discovers a good and a poor content twice each, beside one that finds nothing.
Alone == Both(Connector(<<It(a, "good"), It(b, "poor"), It(a, "good"), It(b, "poor")>>),
              Connector(<<>>))

\* Two runs of the connector meet the same content.
Overlapping == Both(Connector(<<It(b, "poor"), It(a, "good")>>),
                    Connector(<<It(a, "good"), It(c, "malformed")>>))

\* The same file is uploaded twice, once under a license nobody knows.
SameFile == Both(Uploaded(It(a, "poor")), Uploaded(It(a, "good")))

Scenarios == {Alone, Overlapping, SameFile}
Race == {Overlapping}
=============================================================================
