------------------------ MODULE MCConsumerSpending ------------------------
(***************************************************************************)
(* Instances of ConsumerSpending for TLC.                                  *)
(***************************************************************************)
EXTENDS ConsumerSpending, TLC

CONSTANTS alice, bob, k1, k2, k3, code, other

Send(payer, payee, key) ==
  [rail |-> "send", payer |-> payer, payee |-> payee, amount |-> 1,
   object |-> NoObject, key |-> key]

Reserve(owner, key) ==
  [rail |-> "reserve", payer |-> owner, payee |-> owner, amount |-> 1,
   object |-> NoObject, key |-> key]

PayLink(payer, payee, link, key) ==
  [rail |-> "link", payer |-> payer, payee |-> payee, amount |-> 1,
   object |-> link, key |-> key]

Scan(payer, payee, qr, key) ==
  [rail |-> "qr", payer |-> payer, payee |-> payee, amount |-> 1,
   object |-> qr, key |-> key]

\* Two transfers out of alice's wallet, one back from bob under a key alice uses
\* as well, and two reservations.
Locked == {Send(alice, bob, k1), Send(alice, bob, k2), Send(bob, alice, k2),
           Reserve(alice, k1), Reserve(alice, k2)}

\* Two payers of one code, a retry of one of them included; a static code; and
\* two payers of a link.
Objects == {Scan(alice, bob, code, k1), Scan(bob, alice, code, k2),
            Scan(alice, bob, NoObject, k3),
            PayLink(alice, bob, other, k1), PayLink(bob, alice, other, k2)}

\* A transfer and a scanned static code out of one wallet.
ScanAndSend == {Send(alice, bob, k1), Scan(alice, bob, NoObject, k2)}

\* One transfer.
OneSend == {Send(alice, bob, k1)}

\* Two codes scanned under one key.
OneKeyTwoCodes == {Scan(alice, bob, code, k1), Scan(alice, bob, other, k1)}

Interchangeable == Permutations(Worker)

=============================================================================
