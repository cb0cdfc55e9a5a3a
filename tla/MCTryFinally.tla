---------------------------- MODULE MCTryFinally ----------------------------
(* Small programs for TryFinally. *)
EXTENDS TryFinally

CallOf(name)   == [type |-> "call", name |-> name]
ThrowOf(name)  == [type |-> "throw", name |-> name]
ReturnOf(name) == [type |-> "return", name |-> name]
BreakTo(label) == [type |-> "break", label |-> label]
ContinueLoop   == [type |-> "continue"]

With(s)  == [type |-> "with", body |-> s]
Do(s)    == [type |-> "do", body |-> s]
ForIn(s) == [type |-> "forin", body |-> s]
Catch(guard, s) == [guard |-> guard, body |-> s]
Try(s, catches, fin) == [type |-> "try", body |-> s, catches |-> catches, fin |-> fin]

\* Every program is L: do { s; after() } while (condition); end()
Program(s) ==
  [type |-> "block", list |->
    <<[type |-> "label", label |-> "L", body |->
        Do([type |-> "block", list |-> <<s, CallOf("after")>>])],
      CallOf("end")>>]

Leaf == {CallOf("a"), CallOf("throws"), ThrowOf("x"), ReturnOf("r"), BreakTo(""),
         BreakTo("L"), ContinueLoop}

NoCatch  == << >>
NoFinally == << >>
Finally == {NoFinally} \cup {<<s>> : s \in Leaf}

Catches ==
  {NoCatch} \cup {<<Catch("", s)>> : s \in Leaf}
    \cup {<<Catch("no", CallOf("b"))>>, <<Catch("throws", CallOf("b"))>>}
    \cup {<<Catch("no", CallOf("b")), Catch("yes", s)>> : s \in Leaf}
    \cup {<<Catch("no", CallOf("b")), Catch("no", CallOf("c"))>>}
    \cup {<<Catch("no", CallOf("b")), Catch("", CallOf("c"))>>}

OneTry == {Try(s, c, f) : s \in Leaf, c \in Catches, f \in Finally}
            \ {Try(s, NoCatch, NoFinally) : s \in Leaf}

\* What goes inside another try statement, and around that.
FewLeaf  == {CallOf("a"), ThrowOf("x"), ReturnOf("r"), BreakTo("L")}
SmallTry ==
  {Try(s, c, f) : s \in FewLeaf,
                  c \in {NoCatch, <<Catch("", CallOf("b"))>>, <<Catch("no", CallOf("b"))>>},
                  f \in {<<CallOf("f")>>, <<BreakTo("")>>, <<ThrowOf("y")>>, <<ReturnOf("p")>>}}

Wrapped(S) == UNION {{s, With(s), ForIn(s), Do(s)} : s \in S}

Inside == Wrapped(SmallTry)

\* A return that is abandoned by a break in its finally block has already
\* overwritten the value of a return outside, see Overwritten below.
NoReturnInside == Wrapped({s \in SmallTry : s.body.type # "return"})

NestedTry ==
  {Try(s, c, <<CallOf("g")>>) : s \in Inside, c \in {NoCatch, <<Catch("", CallOf("d"))>>}}
    \cup {Try(With(ForIn(s)), NoCatch, <<CallOf("g")>>) : s \in Inside}
    \cup {Try(With(ThrowOf("z")), <<Catch("", s)>>, <<CallOf("g")>>) : s \in Inside}
    \cup {Try(b, NoCatch, <<s>>) : b \in {ThrowOf("z"), BreakTo("L")}, s \in Inside}
    \cup {Try(ReturnOf("q"), NoCatch, <<s>>) : s \in NoReturnInside}
    \cup {With(s) : s \in OneTry} \cup {ForIn(s) : s \in OneTry}

AllPrograms == {Program(s) : s \in OneTry \cup NestedTry}

Overwritten ==
  {Program(Try(ReturnOf("q"), NoCatch,
               <<ForIn(Try(ReturnOf("r"), NoCatch, <<BreakTo("")>>))>>))}

\* Long scripts: a finally block that runs while an exception is pending.
Pending == {Program(Try(ThrowOf("x"), NoCatch,
                        <<[type |-> "block", list |->
                             <<Try(CallOf("a"), NoCatch, <<CallOf("b")>>), CallOf("c")>>]>>))}

\* A guard that has an exception of its own, which replaces the one it guards.
Guarded == {Program(Try(ThrowOf("x"), <<Catch("inner", CallOf("a"))>>, NoFinally))}

\* A try block in which an exception of a callback is left pending.
Hosted == {Program(Try(CallOf("host"), NoCatch, <<CallOf("a")>>))}

Departing == Overwritten \cup Pending \cup Guarded \cup Hosted
=============================================================================
