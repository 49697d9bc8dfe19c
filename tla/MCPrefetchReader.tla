-------------------------- MODULE MCPrefetchReader --------------------------
(* Model constants for PrefetchReader: one format of every kind.           *)
EXTENDS PrefetchReader

Opened(kind, samples, bytes) == [source |-> kind, samples |-> samples, bytes |-> bytes]

\* A chunk is two groups of two samples, and more than one of three, packed in a
\* file or a pipe.
MCFormats == {Opened("raw", 1, 2), Opened("packed", 2, 3), Opened("packed", 3, 4),
              Opened("pipe", 3, 4), Opened("restart", 1, 2), Opened("ffmpeg", 1, 2)}

\* On a group and inside one, less and more than a chunk ahead, and behind the end.
MCTargets(f) == IF ForwardOnly([format |-> f]) THEN {0, 5, 9, 16, 20} ELSE {0, 2, 3, 6, 14}
=============================================================================
