------------------------------- MODULE MCServer -------------------------------
(***************************************************************************)
(* Two parts of the server where something must happen in the end: an      *)
(* import of goods and the subscription of a company.  They share no row:  *)
(* each behaviour is about one of them, chosen at the start.               *)
(***************************************************************************)
EXTENDS ProductImports, Subscriptions

VARIABLE part

serverPartVars == <<part, importVars, subscriptionVars>>

ServerInit ==
    /\ part \in {"import", "subscription"}
    /\ ImportInit /\ SubscriptionInit
    /\ part # "import" => row = Drafted

ServerNext ==
    \/ part = "import" /\ ImportNext /\ UNCHANGED <<part, subscriptionVars>>
    \/ part = "subscription" /\ SubscriptionNext /\ UNCHANGED <<part, importVars>>

\* ImportFairness and SubscriptionFairness, of the part the behaviour is about.
ServerFairness ==
    /\ \A h \in ImportRequest : WF_importVars(part = "import" /\ Proceed(h))
    /\ \A c \in Clerk : WF_subscriptionVars(part = "subscription" /\ FinishTask(c))
    /\ WF_subscriptionVars(part = "subscription" /\ \E c \in Clerk : AskSweep(c))

ServerSpec == ServerInit /\ [][ServerNext]_serverPartVars /\ ServerFairness

ServerTypeOK == ImportTypeOK /\ SubscriptionTypeOK

=============================================================================
