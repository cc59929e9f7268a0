---------------------------- MODULE MCAlgorithms ----------------------------
(***************************************************************************)
(* One instance for the modules of pure algorithms: every call is made     *)
(* once, from the idle state, and a program with constants takes a step for*)
(* each of its statements.                                                 *)
(***************************************************************************)
EXTENDS ArrayQueries, Ranges, Binding, Patterns, Scopes, Strings, Numbers,
        CodePoints, Paths, Expressions, Constants, Enumeration

MCEnds == -2 .. 3
MCPlaces == -4 .. 5
MCNumbers == -Top - 1 .. Top
\* The code points on both sides of every boundary of the coding.
MCPoints == {-1, 0, 127, 128, 2047, 2048, 4095, 4096, 55295, 55296, 57343, 57344, 65535,
             65536, 262143, 262144, 1114111, 1114112}

Init == NoCall
Next ==
    \/ ArrayQueryCall \/ RangeCall \/ BindingCall \/ PatternCall \/ ScopeCall
    \/ StringCall \/ IntegerCall \/ CodePointCall \/ PathCall
    \/ ExpressionCall \/ ConstantCall \/ EnumerationCall
    \/ Back
Spec == Init /\ [][Next]_call
=============================================================================
