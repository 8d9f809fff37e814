---- MODULE MCKernel ----
(* The kernel on a heap of 28 bytes and on machines of three buses with two slots of three functions. *)
EXTENDS Kernel, TLC

Dev(kind, multi) == [kind |-> kind, multi |-> multi]
Card == Dev("e1000", FALSE)
Other == Dev("other", FALSE)
Multi == Dev("other", TRUE)

MCMachines == {
    [l \in {} |-> Other],                                              \* nothing answers
    <<0, 0, 0>> :> Other @@ <<0, 1, 0>> :> Card,                         \* the card behind another device
    <<0, 0, 0>> :> Card @@ <<0, 0, 1>> :> Card,                          \* a single-function device that answers twice
    <<0, 0, 1>> :> Card @@ <<0, 1, 0>> :> Other,                         \* a card without function 0
    <<0, 0, 0>> :> Multi @@ <<0, 0, 1>> :> Card @@ <<1, 1, 0>> :> Other, \* the card as a second function
    <<0, 0, 0>> :> Multi @@ <<0, 1, 0>> :> Multi @@ <<0, 1, 2>> :> Card, \* a gap between functions
    <<2, 0, 0>> :> Card,                                                 \* the card on the last bus
    <<0, 0, 0>> :> Other @@ <<0, 1, 0>> :> Multi @@ <<0, 1, 2>> :> Other
        @@ <<1, 0, 0>> :> Card,                                          \* a full table before the card
    <<0, 0, 0>> :> Other @@ <<0, 1, 0>> :> Other @@ <<1, 1, 0>> :> Card} \* the card last in the table

MCModels == {<<>>, <<"G", "G", "U", "F", 3>>, <<"G", "G">>, <<"E", "L", "F", 1>>}
MCEmbedded == <<"G", "G", "U", "F", 3>>
MCPrompts == {<<>>, <<3>>, <<1, 2, 3, 1>>}
====
