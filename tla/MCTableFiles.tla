---------------------------- MODULE MCTableFiles ----------------------------
(***************************************************************************)
(* Documents of two axes of up to five rows and up to three curves; sheets *)
(* of four rows, two of them headers.  The null token is a word, the name  *)
(* of a column or a number that is also a sample.                          *)
(***************************************************************************)
EXTENDS Naturals, Sequences

CONSTANTS a, b, lost, null, plain, comma, metres, seconds, None
VARIABLES request, archive, archive_offset, central, failed, directory, manifest, export,
          exports

Axes == {<<[id |-> a, length |-> n, unit |-> metres], [id |-> b, length |-> 3, unit |-> u]>> :
            n \in {0, 2, 5}, u \in {metres, seconds}}
Curve(name, axis, samples, suppressed) ==
    [name |-> name, axis |-> axis, samples |-> samples, suppressed |-> suppressed]
Samples == {<<>>, <<1, None>>, <<1, 2, None, 4, 5>>}
Documents ==
    {[axes |-> x, curves |-> <<>>] : x \in Axes}
    \cup {[axes |-> x, curves |-> <<Curve(n, p, s, q), Curve(plain, r, <<7, 8, 9>>, {}),
                                    Curve(comma, a, <<6>>, {})>>] :
            x \in Axes, n \in {plain, null}, p \in {a, b, lost}, r \in {a, b}, s \in Samples,
            q \in {{}, {1}, {2}}}

AllRequests ==
    [of : {"workbook"}, document : Documents]
    \cup [of : {"csv"}, document : Documents, special : {{comma}}, null_token : {null, plain, 2}]
    \cup {[of |-> "package", documents |->
             {[axes |-> <<[id |-> a, length |-> 2, unit |-> metres],
                         [id |-> b, length |-> 3, unit |-> metres]>>,
               curves |-> <<Curve(plain, p, <<1>>, {}), Curve(plain, q, <<1>>, {})>>] :
                p \in {a, b}, q \in {a, b}}]}

INSTANCE TableFiles WITH Requests <- AllRequests, ExcelRows <- 4, HeaderRows <- 2,
  MaximumEntry <- 4, MaxExports <- 3
=============================================================================
