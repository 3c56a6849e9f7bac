------------------------------- MODULE MCOta -------------------------------
EXTENDS Ota

\* HTTP/1.1 200 OK (6 bytes), a line, Content-Length (4 bytes), a line.
Plain == [ok |-> TRUE, code |-> 3, crs |-> {5, 8, 12, 15}, length |-> 10,
          end |-> 18, empty |-> FALSE]
\* The length in the last line.
Late == [Plain EXCEPT !.crs = {5, 8, 12}, !.end = 15]
MCHeaders == {Plain, Late, [Plain EXCEPT !.ok = FALSE],
              [Plain EXCEPT !.length = 0], [Late EXCEPT !.empty = TRUE]}

\* b is not what its head says, c does not fit into the partition.
MCImageLen == [i \in {"a", "b", "c"} |-> IF i = "c" THEN 7 ELSE 4]
=============================================================================
