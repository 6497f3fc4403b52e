----------------------------- MODULE MCClientLink ----------------------------
(* Instances of ClientLink. *)
EXTENDS ClientLink

Setup(keys, required, quiet, n) ==
    [key : keys, required : {required}, quiet : {quiet}, links : {n}, commands : {n}]

\* Every client against a server that asks for a key, and over a link that does not fail against
\* one that does not; two connections one after the other with two commands.
OneLinkOrTwo == Setup({"none", "wrong", "good"}, TRUE, FALSE, 1)
                  \cup Setup({"none", "wrong", "good"}, FALSE, TRUE, 1)
                  \cup Setup({"none"}, FALSE, TRUE, 2)
==============================================================================
