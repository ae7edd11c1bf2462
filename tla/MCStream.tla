------------------------------ MODULE MCStream ------------------------------
(***************************************************************************)
(* The shapes of line of parser.rs's comments and tests, one or two of     *)
(* each, and what each was written for.                                    *)
(***************************************************************************)
EXTENDS Stream

num(n) == <<"num", n>>
name(k) == <<"name", k>>
word(w) == <<"word", w>>
txt(w) == <<"text", w>>
comp(k) == <<"comp", k>>
sub(k, n) == <<"sub", k, n>>

\* Tokens joined by commas, inside brackets.
Listed(toks) ==
    LET joined[i \in 0..Len(toks)] ==
          IF i = 0 THEN <<>>
          ELSE IF i = 1 THEN toks[1] ELSE joined[i - 1] \o <<Sym(",")>> \o toks[i]
    IN  <<Sym("[")>> \o joined[Len(toks)] \o <<Sym("]")>>

Braced(s) == <<Sym("{")>> \o s \o <<Sym("}")>>

At(sec, frac, tag, payload, event) ==
    [text |-> <<<<"stamp", <<sec, frac>>>>, <<"tag", tag>>>> \o payload, event |-> event]

Noise(tag, payload) == At(1, <<>>, tag, payload, Ignored)

Start(pid, uid, top, ts) ==
    [tag |-> "start", pid |-> pid, pkg |-> "app", uid |-> uid, top |-> top, ts |-> ts]

Died(ts) == [tag |-> "died", pid |-> 7, ts |-> ts]

Resume(ts) == [tag |-> "resume", pkg |-> "app", ts |-> ts]

Starts ==
    { At(1, <<2, 3>>, "am_proc_start",
         Listed(<<<<num(0)>>, <<num(7)>>, <<num(9)>>, <<name("app")>>, <<txt("next-top-activity")>>,
                  Braced(<<word("act"), Sym(","), <<"cmp", "app">>, Sym(","), word("flg")>>)>>),
         Start(7, 9, TRUE, 1230)),
      At(1, <<>>, "am_proc_start",
         Listed(<<<<num(0)>>, <<num(7)>>, <<num(9)>>, <<sub("app", "app:svc")>>, <<word("service")>>, Braced(<<>>)>>),
         Start(7, 9, FALSE, 1000)),
      \* The schema of a vendor that writes the name before the numbers.
      At(1, <<5>>, "am_proc_start",
         Listed(<<<<num(0)>>, <<name("app")>>, <<word("service")>>, <<num(7)>>, <<num(9)>>>>),
         Start(7, 9, FALSE, 1500)),
      Noise("am_proc_start", Listed(<<<<num(0)>>, <<num(0)>>, <<num(9)>>, <<name("app")>>, <<word("service")>>>>)),
      Noise("am_proc_start", Listed(<<<<num(0)>>, <<num(7)>>, <<num(9)>>, <<<<"neg", 1>>>>, <<word("service")>>>>)),
      Noise("am_proc_start", Listed(<<<<num(0)>>, <<word("fault")>>>>)) }

Deaths ==
    { At(2, <<2, 3, 4, 5>>, "am_proc_died",
         Listed(<<<<num(0)>>, <<num(7)>>, <<name("app")>>, <<num(900)>>, <<txt("kill background")>>>>),
         Died(2234)),
      At(2, <<>>, "am_proc_died", Listed(<<<<num(7)>>, <<name("app")>>>>), Died(2000)),
      At(2, <<>>, "am_proc_died",
         Listed(<<<<num(1)>>, <<num(7)>>, <<sub("app", "app:svc")>>, <<<<"neg", 1000>>>>, <<word("died")>>>>), Died(2000)),
      Noise("am_proc_died", Listed(<<<<num(0)>>, <<num(900)>>, <<txt("kill background")>>>>)),
      Noise("am_proc_died", Listed(<<<<num(0)>>>>)) }

Resumes ==
    { At(3, <<1>>, "wm_resume_activity",
         Listed(<<<<num(0)>>, <<num(5)>>, <<num(12)>>, <<comp("app")>>, <<num(1)>>>>), Resume(3100)),
      At(3, <<>>, "am_resume_activity", Listed(<<<<num(0)>>, <<num(12)>>, <<comp("app")>>>>), Resume(3000)),
      At(3, <<>>, "wm_resume_activity",
         Listed(<<<<num(0)>>, <<num(5)>>, <<num(12)>>, Braced(<<word("act"), <<"cmp", "app">>, word("flg")>>)>>),
         Resume(3000)),
      At(3, <<>>, "wm_resume_activity",
         Listed(<<<<num(0)>>, <<num(5)>>, <<num(12)>>, Braced(<<comp("app")>>)>>), Resume(3000)),
      \* An intent with more commas than there are tokens.
      At(3, <<>>, "wm_resume_activity",
         Listed(<<<<num(0)>>, <<num(5)>>, <<num(12)>>,
                  Braced([i \in 1..10 |-> IF i % 2 = 0 THEN Sym(",") ELSE word("extra")] \o <<<<"cmp", "app">>>>)>>),
         Resume(3000)),
      \* A component is cut at its slash only.
      At(3, <<>>, "am_resume_activity", Listed(<<<<num(0)>>, <<num(12)>>, <<<<"comp", "app", "app:svc">>>>>>),
         [tag |-> "resume", pkg |-> "app:svc", ts |-> 3000]),
      Noise("wm_resume_activity", Listed(<<<<num(0)>>, <<num(5)>>, <<num(12)>>, <<<<"badcomp", "-app">>>>>>)),
      Noise("wm_resume_activity", Listed(<<>>)) }

Others ==
    { At(4, <<>>, "screen_toggled", <<num(0)>>, [tag |-> "screen", on |-> FALSE, ts |-> 4000]),
      At(4, <<>>, "screen_toggled", Listed(<<<<num(1)>>>>), [tag |-> "screen", on |-> TRUE, ts |-> 4000]),
      Noise("screen_toggled", <<num(2)>>),
      At(4, <<>>, "device_idle_light_step", <<>>, [tag |-> "doze", ts |-> 4000]),
      Noise("device_idle_light_step", Listed(<<<<num(4)>>, <<word("alarm")>>>>)),
      Noise("am_anr", Listed(<<<<num(0)>>, <<num(7)>>, <<name("app")>>>>)),
      \* A stamp too late to be counted in milliseconds.
      At(5, <<>>, "screen_toggled", <<num(0)>>, Ignored),
      [text |-> <<Sym("---"), word("beginning")>>, event |-> Ignored],
      [text |-> <<>>, event |-> Ignored],
      [text |-> <<<<"stamp", <<1, <<>>>>>>, <<"tag", "screen_toggled">>, Sym("bad")>>, event |-> Ignored] }

\* A start whose intent outgrows the buffer.
Oversize ==
    At(1, <<>>, "am_proc_start",
       Listed(<<<<num(0)>>, <<num(7)>>, <<num(9)>>, <<name("app")>>, <<word("service")>>,
                Braced([i \in 1..BufCap |-> IF i % 2 = 0 THEN Sym(",") ELSE word("extra")])>>),
       Start(7, 9, FALSE, 1000))

MCLine == Starts \cup Deaths \cup Resumes \cup Others \cup {Oversize}
=============================================================================
