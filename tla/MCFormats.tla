----------------------------- MODULE MCFormats -----------------------------
(***************************************************************************)
(* Inputs of AllFormats for TLC: the ends of every range the code compares *)
(* with, and a few values on either side of them.                          *)
(***************************************************************************)
EXTENDS AllFormats

MCNumbers ==
  UNION {{n - 1, n, n + 1, -n} : n \in {1, 17, 128, 253, 256, 32768, 65536, 8388608, 2147483646}}

MCHeights == {0, 1, 16, 17, 127, 128, 255, 256, 32767, 32768, 800000, 8388608}

MCValues == {0, 1, 65536, 312500000}

MCScripts == {Bytes(n, 81) : n \in {22, 23, 25, 34, 42}}

MCCommitments == {<<>>, Bytes(38, 106)}

MCLeafCounts == 1..17

MCTxCounts == (1..4) \cup {252, 253, 254}

\* Expanded, such a target has at most 31 bits.
MCWords ==
  (0..3) \X {0, 1, 127, 128, 255, 256, 32767, 32768, 8388607, 8388608, 8388609, 16777215}
    \cup {4} \X {1, 127, 128, 255, 32768, 65535, 8388607}
    \cup {5} \X {1, 127, 128, 255, 32767, 8388608 + 32767}
    \cup {6} \X {1, 127, 8388608 + 127}

MCHashes == {0, 1, 7, 8, 15, 16, 127, 128, 255} \X {0, 1, 15, 16, 128, 255}

MCAddresses ==
  [form : {"base58"}, hrp : {"bc"}, version : {0, 1, 5, 111, 196}, length : {19, 20, 21}]
    \cup [form : {"bech32", "bech32m", "none"}, hrp : {"bc", "bcrt", "ltc"},
          version : {0, 1, 2, 16, 17, 31}, length : {1, 2, 20, 32, 33, 40, 41}]

Ends == {0, 9, 10, 11, 15, 16, 31, 32, 63, 64, 99, 100, 101, 126, 127, 128, 167, 168, 169, 171,
         172, 173, 191, 192, 193, 253, 254, 255}

MCHosts ==
  [kind : {"ipv4"}, octets : Ends \X Ends \X {1} \X {1}]

MCVisited ==
  {[kind |-> "ipv4", octets |-> <<127, 0, 0, 1>>],
   [kind |-> "ipv4", octets |-> <<8, 8, 8, 8>>],
   [kind |-> "ipv6", begins |-> "fd", octets |-> <<>>],
   [kind |-> "ipv6", begins |-> "::ffff:", octets |-> <<10, 0, 0, 1>>],
   [kind |-> "ipv6", begins |-> "2001:", octets |-> <<>>],
   [kind |-> "name", labels |-> <<"umbrel">>, octets |-> <<>>],
   [kind |-> "name", labels |-> <<"umbrel", "local">>, octets |-> <<>>],
   [kind |-> "name", labels |-> <<"example", "com">>, octets |-> <<>>]}

\* The longest texts of each type and the shortest that need the next one, up to
\* the longest of the fourth, and the length of the lightning address.
MCTexts == {[i \in 1..n |-> (37 * i) % 256] : n \in {1, 13, 14, 15, 25, 26, 27, 30, 41, 42, 43, 61, 62}}
=============================================================================
