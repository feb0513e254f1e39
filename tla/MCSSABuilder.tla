---------------------------- MODULE MCSSABuilder ----------------------------
(***************************************************************************)
(* Functions for SSABuilder: assignments before a loop, choices in it, and *)
(* reads behind the choice, around the loop and behind it.                 *)
(***************************************************************************)
EXTENDS SSABuilder

Entry  == 1
Header == 2
Body   == 3
Then   == 4
Else   == 5
Behind == 6
Exit   == 7
Other  == 8
Third  == 9

V == "v"
W == "w"

\* What a block does with the variables.
Works(b) == {<<>>, <<Write(b, V)>>, <<Copy(b, V, W)>>, <<Copy(b, W, V)>>, <<Write(b, W), Read(b, V)>>}

Begins == {<<Write(Entry, V)>>, <<Write(Entry, W), Copy(Entry, V, W)>>}

Ends(b, head) == {<<Branch(b, head)>>, <<Branch(b, Exit)>>, <<Branch(b, head), Branch(b, Exit)>>}

\* A choice in a loop, the end of which goes back to its head or leaves it.
Branched ==
  {begin \o <<Branch(Entry, Header), Open(Header)>> \o first
     \o <<Branch(Header, Body), Branch(Header, Exit), Branch(Body, Then), Branch(Body, Else)>>
     \o then \o <<Branch(Then, Behind)>> \o else \o <<Branch(Else, Behind)>>
     \o reads \o end \o <<Seal(Header), Read(Exit, V), Read(Exit, W)>> :
     begin \in Begins, first \in {<<>>, <<Read(Header, W)>>}, then \in Works(Then), else \in Works(Else),
     reads \in {<<>>, <<Read(Behind, V), Read(Behind, W)>>}, end \in Ends(Behind, Header)}

\* A loop in a loop; Body is the inner head.
Nested ==
  {begin \o <<Branch(Entry, Header), Open(Header), Branch(Header, Body), Branch(Header, Exit), Open(Body)>>
     \o first \o <<Branch(Body, Then), Branch(Body, Behind)>> \o then \o <<Branch(Then, Body), Seal(Body)>>
     \o behind \o <<Branch(Behind, Header), Seal(Header), Read(Exit, V), Read(Exit, W)>> :
     begin \in Begins, first \in Works(Body), then \in Works(Then), behind \in Works(Behind)}

\* An exception handler, Else, which every block of a loop can come to.
Handled ==
  {begin \o <<Open(Else), Branch(Entry, Header), Open(Header)>> \o first
     \o <<Branch(Header, Body), Branch(Header, Exit), Branch(Header, Else)>>
     \o then \o <<Branch(Body, Behind), Branch(Body, Else)>> \o behind
     \o <<Branch(Behind, Header), Branch(Behind, Else), Seal(Header)>>
     \o else \o <<Branch(Else, Exit), Seal(Else), Read(Exit, V), Read(Exit, W)>> :
     begin \in Begins, first \in Works(Header), then \in Works(Body), behind \in Works(Behind), else \in Works(Else)}

\* Assigned from w or anew, or left alone.
Assigned(b) == {<<>>, <<Copy(b, V, W)>>, <<Write(b, V)>>}

\* A choice of three in a loop: its branches can pass one argument twice.
Chained ==
  {begin \o <<Branch(Entry, Header), Open(Header), Branch(Header, Body), Branch(Header, Exit),
               Branch(Body, Then), Branch(Body, Else), Branch(Else, Other), Branch(Else, Third)>>
     \o then \o <<Branch(Then, Behind)>> \o other \o <<Branch(Other, Behind)>>
     \o third \o <<Branch(Third, Behind), Read(Behind, V)>> \o end
     \o <<Branch(Behind, Header), Seal(Header), Read(Exit, V), Read(Exit, W)>> :
     begin \in Begins, then \in Assigned(Then), other \in Assigned(Other), third \in Assigned(Third),
     end \in Assigned(Behind)}

\* A choice in a choice in a loop, without else clauses: the way behind the outer one passes
\* what the way behind the inner one has chosen.
Inner ==
  {begin \o <<Branch(Entry, Header), Open(Header), Branch(Header, Body), Branch(Header, Exit),
               Branch(Body, Then), Branch(Body, Behind), Branch(Then, Else), Branch(Then, Other)>>
     \o else \o <<Branch(Else, Other)>> \o other
     \o <<Branch(Other, Behind), Read(Behind, V)>> \o end
     \o <<Branch(Behind, Header), Seal(Header), Read(Exit, V), Read(Exit, W)>> :
     begin \in Begins, else \in Works(Else), other \in Assigned(Other) \cup {<<Read(Other, V)>>},
     end \in Assigned(Behind)}

MCScripts == Branched \cup Nested \cup Handled \cup Chained \cup Inner
=============================================================================
