------------------------------ MODULE MCStream ------------------------------
(* A small instance of Stream: tags of two and three characters, of which   *)
(* two are held back as 11 are of the code's 12, and the answers a model    *)
(* may give.                                                                *)
EXTENDS Stream

Open  == <<"<", "t">>
Close == <<"<", "/", "t">>
White == {" "}

Call(name, args)      == [name |-> name, args |-> args]
Answer(text, calls)   == [text |-> text, calls |-> calls]

(* A thought with what looks like its end, an answer that looks like a      *)
(* thought, calls after either, and a thought that does not end.            *)
SomeAnswers ==
    {Answer(<<" ", "<", "t", "a", "<", "<", "/", "t", " ", "b">>, <<>>),
     Answer(<<"<", "a", " ">>, <<Call("f", <<"p", "q">>), Call("g", <<"r">>)>>),
     Answer(<<"<", "t", "a", "<", "/">>, <<Call("f", <<"p">>)>>)}
=============================================================================
