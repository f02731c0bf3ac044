----------------------------- MODULE MCPlumbing -----------------------------
(* An instance of Plumbing for TLC.  The commands are what the parser makes*)
(* of these texts, so the assumption on Lines is checked of them.          *)
EXTENDS Plumbing

P == INSTANCE Parser WITH Openable <- {"p", "jobs", "f"}, Unopenable <- {}, Lines <- {},
        last_parsed_command_call_substitution <- 0, line <- <<>>, commands <- <<>>,
        refused <- FALSE, given_up <- FALSE, open <- {}, phase <- "prompt"

Texts ==
    {<<"p", "|", "p", "|", "p">>,
     <<"p", "<(", "p", ")", "|", "p">>,
     <<"p", "<(", "p", "|", "p", ")">>,
     <<"p", "<(", "p", ")", "<(", "jobs", ")">>,
     <<"jobs", "|", "p">>,
     <<"p", "|", "jobs">>,
     <<"jobs", "|", "jobs">>,
     <<"p", "<(", "jobs", ")", "|", "p">>,
     <<"p", "|", "p", ">", "f">>,
     <<"p", "2>", "f", "|", "p", "2>", "f">>,
     <<"p", "&", "p", "|", "p">>,
     <<"p", "|", "p", "&", "p">>,
     <<"p", "&", "jobs", "|", "p">>,
     <<"p", "<(", "p", "<(", "p", ")", ")", "|", "p">>,
     <<"p", "|", "p", "&", "p", "|", "p">>,
     <<"jobs", ">", "f", "&", "p", "<", "f">>,
     <<"p", ">", "f", "&", "jobs", "2>", "f">>}

MCLines == {P!parse_read_line(t, 0).commands : t \in Texts}
=============================================================================
