----------------------------- MODULE MCPipeline -----------------------------
(* Sessions for the TLC runs of Pipeline.                                   *)
EXTENDS Pipeline

Do(b)       == [nest |-> 0, body |-> b]
Timed(n, b) == [nest |-> n, body |-> b]

\* `timeout` in a list, nested, around a panic; an endless command.
Lists == {
    << << <<Timed(1, "long")>>, <<Timed(1, "ok")>> >>, << <<Do("ok")>> >> >>,
    << << <<Timed(2, "long")>> >>, << <<Do("ok")>> >> >>,
    << << <<Timed(1, "panic")>> >>, << <<Do("long")>> >> >>,
    << << <<Do("long")>>, <<Do("fail")>> >> >> }

\* Pipes with a failing, panicking, endless, deaf, empty and timed stage.
Pipes == {
    << << <<Do("fail"), Do("ok")>>, <<Do("ok")>> >> >>,
    << << <<Do("panic"), Do("fail"), Do("ok")>> >> >>,
    << << <<Do("ok"), Do("panic"), Do("fail")>> >> >>,
    << << <<Do("long"), Do("ok")>> >>, << <<Do("ok")>> >> >>,
    << << <<Do("ok"), Do("deaf")>> >>, << <<Do("ok")>> >> >>,
    << << <<Do("empty"), Do("fail")>> >> >>,
    << << <<Timed(1, "long"), Do("fail")>> >>, << <<Do("ok")>> >> >> }

Mixed == Lists \cup Pipes
TimedPipe == { << << <<Timed(1, "long"), Do("ok")>> >> >> }
=============================================================================
