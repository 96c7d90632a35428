--------------------------- MODULE MCNotifications ---------------------------
EXTENDS Notifications, TLC
MCMessages == {"retail.return.requested", "retail.return.authorized", "retail.refund.issued"}
MCAddressed == MCMessages
Alike == Permutations(Actors)
=============================================================================
