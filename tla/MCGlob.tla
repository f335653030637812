------------------------------- MODULE MCGlob -------------------------------
(* Glob over a directory with a file "x", a hidden file ".x", a directory "y"  *)
(* that holds "x" and "yy", and a directory "y." that holds "x".  For strcmp    *)
(* "y./x" is before "y/x", although "y" is before "y.".                         *)
EXTENDS Glob, TLC

\* '.', '/', 'x' and 'y'
Period == 1
Separator == 2
AllCharacters == {1, 3, 4}

Files == <<>> :> {<<3>>, <<1, 3>>, <<4>>, <<4, 1>>}
           @@ <<<<4>>>> :> {<<3>>, <<4, 4>>} @@ <<<<4, 1>>>> :> {<<3>>}

Is(c) == [kind |-> "char", chars |-> {c}]
AnyOne == [kind |-> "one", chars |-> {}]
Star == [kind |-> "all", chars |-> {}]
OneOf(s) == [kind |-> "set", chars |-> s]
NoneOf(s) == [kind |-> "not", chars |-> s]

Segment(tokens) == [kind |-> "segment", of |-> tokens]

\* *  y**.  ?[!x]  .*  [.y]*/?*
Plain == {<<Segment(<<Star>>)>>,
          <<Segment(<<Is(4), Star, Star, Is(1)>>)>>,
          <<Segment(<<AnyOne, NoneOf({3})>>)>>,
          <<Segment(<<Is(1), Star>>)>>,
          <<Segment(<<OneOf({1, 4}), Star>>), Segment(<<AnyOne, Star>>)>>}

Brace(alternatives) == [kind |-> "brace", of |-> alternatives]
OpenBrace == [kind |-> "open", of |-> <<>>]

\* {*,x}/{x,*y}  y/{x
Braced == {<<Brace(<< <<<<Star>>>>, <<<<Is(3)>>>> >>), Brace(<< <<<<Is(3)>>>>, <<<<Star, Is(4)>>>> >>)>>,
           <<Segment(<<Is(4)>>), OpenBrace, Segment(<<Is(3)>>)>>}

SomePatterns == Plain \cup Braced

SomeFlags == {{}, {"NOCHECK", "ERR"}, {"NOMAGIC", "NOSORT"}}

=============================================================================
