----------------------------- MODULE MCCrawler ------------------------------
(* A site, its neighbour and the texts of a page, for the instances of Crawler. *)
EXTENDS Crawler

CONSTANTS home, list, page, last, moved, image, away

\* away is another site; moved redirects to page.
Site == [u \in Urls |-> IF u = away THEN "elsewhere" ELSE "here"]
Redirects == [u \in Urls |-> IF u = moved THEN page ELSE u]

\* page is one link from home and two by way of list; its relative link to last leads
\* elsewhere when it is resolved against moved.
Linked == [p \in Urls \X Urls |->
             CASE p[1] = home -> <<page, list, away>>
               [] p[1] = list -> <<page, moved, home>>
               [] p = <<page, page>> -> <<last, image>>
               [] p = <<page, moved>> -> <<image>>
               [] p[1] = last -> <<home, list, away>>
               [] p[1] = away -> <<last>>
               [] OTHER -> <<>>]

Run(seeds, allowed, depth, pages) == [seeds |-> seeds, allowed |-> allowed, depth |-> depth, pages |-> pages]
Given == {Run(<<>>, {}, 2, 9), Run(<<home>>, {}, 2, 9), Run(<<home, home>>, {"here", "elsewhere"}, 2, 3),
          Run(<<away, home>>, {}, 1, 9), Run(<<home, away>>, {"here"}, 9, 9)}

\* Lines of up to three tokens and blank ones; long ones with a character torn in two between
\* their first two pieces, whose texts are encoded to fewer, as many or more tokens than were cut.
Ln(n) == [before |-> 1, tokens |-> [k \in 1..n |-> TRUE], after |-> 2, again |-> <<>>]
Torn(n, again) == [before |-> 0, tokens |-> [k \in 1..n |-> k # 5], after |-> 1, again |-> again]
Seven == Torn(7, <<5, 1>>)
AnyText == [1..4 -> {Ln(1), Ln(2), Seven}] \cup [1..5 -> {Ln(1)}]
           \cup [1..2 -> {Ln(0), Ln(3), Torn(6, <<6, 1>>), Torn(12, <<6, 3, 2>>)}]
SomeText == [u \in Urls |-> IF u = home THEN AnyText ELSE {<<Ln(1), Ln(3), Ln(2)>>}]
=============================================================================
