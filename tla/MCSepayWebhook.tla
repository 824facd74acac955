--------------------------- MODULE MCSepayWebhook ---------------------------
(***************************************************************************)
(* SepayWebhook for TLC.  The transfers are a catalogue of the payments    *)
(* the code tells apart; a behaviour makes any MaxTransfers of them.       *)
(***************************************************************************)
EXTENDS SepayWebhook, TLC

CONSTANTS
  w1, w2,
  Chosen          \* the payments of the catalogue that may be made

MCWorkers == {w1, w2}
Symmetry == Permutations(MCWorkers)

Pay(ref, amount, account, code, student) ==
  [ref |-> ref, amount |-> amount, account |-> account, code |-> code, student |-> student]

\* order: pays o1; other: pays o2 under the bank reference of order; qr: static
\* QR; qrRef: static QR with the reference of qr; both: a legacy memo with an
\* order code (pays o1 a second time) and a student, with the reference of qr.
Catalogue ==
  [ order   |-> Pay("order", 1, "A", "o1", None),
    other   |-> Pay("order", 1, "A", "o2", None),
    less    |-> Pay("less",  2, "A", "o1", None),
    elsewhere |-> Pay("elsewhere", 1, "B", "o1", None),
    qr      |-> Pay("qr",    2, "A", None, "s1"),
    qrRef   |-> Pay("qr",    1, "A", None, "s2"),
    qrWrong |-> Pay("qrWrong", 1, "B", None, "s1"),
    qrZero  |-> Pay("qrZero", 0, "A", None, "s1"),
    both    |-> Pay("qr",    1, "A", "o1", "s1"),
    out     |-> Pay("out",   1, "A", None, "s1") ]

\* One order with a fixed receiving account, one without.
MCOrderRequests ==
  { q \in { [code |-> "o1", student |-> "s1", amount |-> 1, account |-> "A"],
            [code |-> "o2", student |-> "s2", amount |-> 1, account |-> None] } :
      q.code \in OrderCodes }

MCTransfers == Chosen
MCRefOf == [t \in MCTransfers |-> Catalogue[t].ref]
MCAmountOf == [t \in MCTransfers |-> Catalogue[t].amount]
MCAccountOf == [t \in MCTransfers |-> Catalogue[t].account]
MCMemoCode == [t \in MCTransfers |-> Catalogue[t].code]
MCMemoStudent == [t \in MCTransfers |-> Catalogue[t].student]
MCInbound == Chosen \ {"out"}
=============================================================================
