----------------------------- MODULE MCChannelIntake -----------------------------
(* A small instance of ChannelIntake.  By email: a first message sent to    *)
(* two mailboxes, an answer to it, a message of a known contact who names   *)
(* its message id and its ticket's token, and an answer to that one.  By    *)
(* WhatsApp: messages of one number in batches of both orders, and a third  *)
(* on its own.                                                              *)
EXTENDS ChannelIntake, TLC

CONSTANTS w1, w2, e1, e2, e3, e4, e5, a, b, c, m1, m3, m4, m5, ma, mb, mc, ann, bob, n1

MCMail == (e1 :> m1) @@ (e2 :> m1) @@ (e3 :> m3) @@ (e4 :> m4) @@ (e5 :> m5) @@
          (a :> ma) @@ (b :> mb) @@ (c :> mc)
MCSender == (e1 :> ann) @@ (e2 :> ann) @@ (e3 :> ann) @@ (e4 :> bob) @@ (e5 :> bob) @@
            (a :> n1) @@ (b :> n1) @@ (c :> n1)
MCDomain == [e \in {e1, e2, e3, e4, e5, a, b, c} |-> IF e = e2 THEN "it" ELSE "operational"]
MCReferences == [e \in {e1, e2, e3, e4, e5, a, b, c} |->
                   CASE e \in {e3, e4} -> {m1} [] e = e5 -> {m4} [] OTHER -> {}]
MCToken == [e \in {e1, e2, e3, e4, e5, a, b, c} |-> IF e \in {e3, e4} THEN e1 ELSE None]
MCScenarios == {{<<e1>>, <<e2>>, <<e3>>}, {<<e1>>, <<e4>>}, {<<e4>>, <<e5>>},
                {<<a, b>>, <<b, a>>}, {<<a, b>>, <<c>>}, {}}
=============================================================================
