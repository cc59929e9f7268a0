------------------------------ MODULE MCUnwind ------------------------------
(* Instances of Unwind for model checking: which programs are explored.    *)
EXTENDS Unwind

Base == {"begin", "ensure", "raise", "method"}

\* Profiles whose constructs compose: each leaves out the pairs the evaluator
\* confuses, which the README lists.
CleanProfiles ==
  { Base \cup {"yield", "return", "break", "next"},
    Base \cup {"iter", "return", "break", "next"},
    {"begin", "ensure", "raise", "reraise"},
    Base \cup {"retry", "function", "return"},
    {"begin", "else", "ensure", "raise", "function"},
    Base \cup {"while", "for", "return", "break", "next"},
    Base \cup {"catch", "throw", "iter"},
    Base \cup {"loop", "break", "return", "next"},
    {"begin", "ensure", "method", "yield", "relay", "return", "next"},
    {"method", "proc", "return", "yield", "next"},
    Base \cup {"proc", "return", "break"},
    Base \cup {"lambda", "return", "break"} }

ASSUME CleanProfilesCompose == \A p \in CleanProfiles : Composes(p)

\* Profiles that mix the constructs the evaluator confuses.
MixedProfiles ==
  { {"begin", "else", "ensure", "retry", "raise", "reraise"},
    {"begin", "else", "ensure", "raise", "return", "break", "while", "for", "method"},
    {"begin", "ensure", "rope", "raise", "method", "function"},
    {"begin", "ensure", "raise", "loop", "while", "catch", "throw", "break", "method"},
    {"begin", "ensure", "raise", "function", "yield", "relay", "break", "escaped"},
    {"begin", "ensure", "raise", "method", "proc", "lambda", "return", "iter"} }

\* The pair of constructs of the run that shows a disagreement.
RopeProfile == { {"begin", "raise", "rope"} }
=============================================================================
