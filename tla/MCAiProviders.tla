---------------------------- MODULE MCAiProviders ----------------------------
(* AiProviders on small sets. *)
EXTENDS AiProviders, TLC

Symmetry == Permutations(Urls) \cup Permutations(Keys) \cup Permutations(Tests)
            \cup Permutations(Turns)

=============================================================================
