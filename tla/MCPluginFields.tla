--------------------------- MODULE MCPluginFields ---------------------------
(* PluginFields with two-valued bytes, so that a 4-byte enum bin holds 16  *)
(* indexes and the "Too many items" limit is reached by a few keys.        *)
EXTENDS PluginFields

\* An ordering that leaves two free indexes below the limit.
MCOrdering == [i \in 1..B ^ 4 - 2 |-> i]
\* Ranges whose widths take the 1-byte struct, a padded struct, the 4-byte
\* struct, the byte-by-byte path and the 16-byte converter, with min below,
\* at and above zero.
MCRanges == {<<0, 0>>, <<-2, 2>>, <<-3, 4>>, <<2, 9>>, <<-5, 300>>,
             <<-5, 40000>>}

\* Two ranges: one from zero and one from below zero.
MCTextRanges == {<<0, 9>>, <<-3, 4>>}
=============================================================================
