------------------------------ MODULE MCSignIn ------------------------------
(***************************************************************************)
(* Two users of one browser and its tabs, already signed in once; two more *)
(* callbacks, and one change of groups at the provider.                    *)
(***************************************************************************)
EXTENDS SignIn, TLC

Symmetry == Permutations(Users) \cup Permutations(Teams)
              \cup Permutations(Browsers) \cup Permutations(States)
              \cup Permutations(Callbacks \ {First})
=============================================================================
