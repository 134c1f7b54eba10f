------------------------------- MODULE MCFlow -------------------------------
(***************************************************************************)
(* BotFlow on the messages that make a difference to bookings (Form) and to *)
(* the discount (Sale).                                                    *)
(***************************************************************************)
EXTENDS BotFlow

Text(means, gives, about) == [tap |-> "none", means |-> means, gives |-> gives, about |-> about]

FormTexts == {
    Text({"menu"}, {"name"}, "none"),
    Text({"reschedule", "human"}, {}, "none"),
    Text({"human"}, {"name"}, "none"),
    Text({"yes"}, {"name"}, "none"),
    Text({"no", "refuses"}, {}, "none"),
    Text({}, {"name", "email"}, "other"),
    Text({}, {"phone"}, "none"),
    Text({}, {"time"}, "none"),
    Text({}, {"time", "intro", "name", "email"}, "none")}
FormTaps == {"menu:counselor", "phone:other", "enrolled:paid", "offer:question"}

SaleTexts == {
    Text({"greeting"}, {}, "none"),
    Text({"catalogue"}, {}, "none"),
    Text({"human"}, {"name"}, "none"),
    Text({"courses"}, {}, "none"),
    Text({"enrolled"}, {}, "none"),
    Text({"talk"}, {}, "none"),
    Text({"closing", "undecided"}, {}, "none"),
    Text({"group"}, {}, "none"),
    Text({"paid"}, {}, "none"),
    Text({"free"}, {}, "none"),
    Text({"long"}, {}, "none"),
    Text({"price"}, {}, "upsell"),
    Text({}, {}, "free"),
    Text({"yes"}, {"name"}, "none"),
    Text({"no", "refuses"}, {}, "none"),
    Text({}, {"time"}, "none")}
SaleTaps == {"offer:question", "offer:pay", "offer:done", "menu:courses", "group", "course:row",
             "course:others", "course:unsure", "menu:enrolled", "enrolled:paid", "enrolled:free",
             "menu:counselor", "confirm:yes", "confirm:no", "support", "phone:confirm"}

\* What follows the last booking is not explored.
BookingsLeft == Len(leads) < MaxLeads
=============================================================================
