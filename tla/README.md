# Verification of fleetapp

TLA+ models of fleetapp (a car-rental back office: `src/apps/web`, `src/apps/admin`,
`src/packages/*`), the TLC configurations that check them on small instances, and TLAPS
proofs that their safety properties hold for every instance. `PROJECT.json` is the
index: components, runs, mutants, the source lines each definition models, findings,
hazards and theorems.

1. [The system](#1-the-system)
2. [What is modelled, module by module](#2-what-is-modelled-module-by-module)
3. [The runs](#3-the-runs)
4. [Fairness](#4-fairness)
5. [What is proved](#5-what-is-proved)
6. [Findings and observations](#6-findings-and-observations)
7. [What is not modelled, and the plan](#7-what-is-not-modelled-and-the-plan)
8. [Working on it](#8-working-on-it)

## 1. The system

Two Next.js sites share one PostgreSQL database. The web app (`src/apps/web`) is used by a
business's staff and, through e-mailed links, by its Renters; the admin site creates and
suspends businesses. Nothing is kept in memory between requests: the state is the database,
Stripe, the file store, and the queue of changes on a phone that is off line.

- **Transactions.** Every change of a business's data runs in `withTenant`
  (`packages/db/src/tenant-context.ts:46`): one transaction, READ COMMITTED, with row-level
  security set to the business. A statement sees what was committed before *that statement*
  began, so two reads of a transaction may differ; `FOR UPDATE` locks only rows that exist
  already. Unique indexes, checks, exclusion constraints and triggers have the last word.
- **Stripe and storage are asked outside transactions** ("Stripe is never waited on while
  rows are locked"), so an answer is old by the time it is applied. The one exception is a
  billing document, whose PDF is stored while its number is held.
- **Stripe sends events again** until they are answered with success, in any order.
  `record_stripe_event` keeps the ones handled.
- **Serverless requests may die** between any two awaits. Nightly runs (rent, tidy-up at
  Stripe, billing catch-up, file clean-up) mend what was left.
- **Phones load a page first and write later**, maybe much later: what they were shown is
  compared again, or not, in the transaction that writes.

### Inventory

Paths are under `src/apps/web/src/lib` unless they say otherwise.

| Component | State | Operations | What is hard | What makes it correct | Modelled |
|---|---|---|---|---|---|
| Bond payments (`payments/renter-checkout.ts`, `renter-payment-records.ts`, `stripe-checkouts.ts`, `bonds/`) | `stripe_checkouts`, `payments`, `bond_movements`, `stripe_events`; pages and payment intents at Stripe | press Pay the bond, record bond by hand, reverse an entry, come back from the page, handle a Checkout event | presses racing presses, clerks and events; readings of Stripe applied late; deaths between Stripe and the database | a payment is recorded as it is, on the bond once; no paid page is lost; never two payable pages on record | `BondPages`, `BondMoney` |
| Money taken back (`payments/stripe-money-back.ts`) | entries with a `stripe_object_id` | refund and dispute events | news before its payment is recorded; three kinds of event for one refund; failure told before the refund is booked | the books say only what happened, once | `MoneyTakenBack` |
| Direct debits (`payments/renter-payment-records.ts`, `stripe-tidy-up.ts`) | `payment_mandates`; mandates and payment methods at Stripe | set up, record, change of status, detach the replaced | told out of order; two recorded at once; the tidy-up dying half-way | kept as the bank says; what ended stays ended; only the replaced are cancelled | `Mandates` |
| Events endpoint (`payments/payment-accounts.ts`) | `stripe_events` | one event, told again until it is answered | answered before or after what it tells is on record | answered for good in the end, and only once applied | in the three above |
| Stripe account (`payments/payment-accounts.ts`) | `stripe_accounts` | onboard, refresh status, disconnect | status read, then saved over what came since | once disconnected, stays so; the status kept is the latest | disconnection only |
| Renters' customers at Stripe (`renter-checkout.ts`, `stripe-tidy-up.ts`, `renters/renter-records.ts`) | `stripe_customers` and its told-or-not mark | make the customer, tell changed details | two presses at once; two syncs at once, the older arriving last | one customer a Renter; Stripe ends with the newest details | no |
| Rent in blocks of a day (`ledger/rent-job.ts`, `packages/core/src/rent-blocks.ts`) | rent lines of the ledger, waiver, rates | nightly charge, charge at return, waive, new rate | runs twice, late, beside changes of terms, returns and reversals by hand | each period nets to what it owes; a second run adds nothing | `Rent` |
| Ledger (`ledger/ledger-records.ts`) | `ledger_lines` | charge, payment, reversal | a reversal beside the rent run | nothing reversed twice; the balance is the sum | lines, in `Rent` and `Billing` |
| Changes of terms (`rentals/rental-changes.ts`, `change-signing.ts`) | `rental_changes` | propose, send, sign, withdraw | a rate signed while its week is charged | at most one open; signed terms are the ones charged | `Fleet`, `Signing`, `Rent` |
| Bookings and holds (`rentals/rental-records.ts`, `car-holds.ts`) | `rentals`, `car_holds` | draft, book, change the end, cancel | clash found by one read, held by another | one rental holds a car at a time | `Fleet`, `CarKeys` |
| Handover, return, swap (`handover/complete-*.ts`, `rentals/car-swaps.ts`) | `inspections`, `possessions`, `car_swaps`, status of car and rental | start, load, complete, cancel | what the phone loaded is old when it is finished; a swap cancelled while it is completed | a car is with one Renter; possession, hold, car and rental agree | `Fleet`, `CarKeys` |
| Checklist off line (`handover/offline/`) | the phone's queue | mark, photo, send again | an answer lost after the server saved; two tabs | each mark saved once, nothing made is lost | `PhoneQueue` |
| Billing documents (`billing/`, `packages/core/src/billing.ts`) | `billing_documents`, their lines, `document_numbering` | issue, number, set the next number | failure between number, PDF and row; lines taken back before or after their document | no gap, no number twice; documents add up to the ledger | `Billing` |
| Contracts and signing (`contracts/`) | documents issued and signed, links to sign with | send, show, sign, stop | signed while being replaced | signed once, only while it may be | `Signing` |
| Renter links (`renter-links/`) | links, codes, submissions | send, open, enter a code, submit, review | a code put back when its e-mail fails; a link that ends between its look-up and its use | a code lets in one phone; an hour has its codes; what waits for review stays whole | `LinkCodes`, `Renters`, `Signing` |
| Renters and retention (`renters/`) | `renters`, licence scans | archive, restore, retire, clean up | a page still open when its Renter is retired | nothing in use is left of a retired Renter | `Renters`, in part |
| Files (`files/`) | `files`; objects in the store | ask, upload, confirm, remove, restore, purge | store and database changed in turn | a file in use has the bytes checked; one said to be gone is | `Files` |
| Nightly runs (`jobs/due-operators.ts`) | none of their own | loop over businesses | time budget, one business failing | every business gets its turn | each business's run |
| Cars, registrations, insurance, costs; damage; settings | one table each | create, change, archive | little: one row, one transaction | audit line with each change | a car's status, in `Fleet` |
| Sign-in (`packages/auth/src`) | counts of tries, codes, sessions | try, succeed, lock | tries counted before their check | no more tries than the limit | no |
| Invites, admin site | invites, businesses | invite, accept, suspend | a conditional update | one acceptance | no |
| Pages, lists, search, export; pure rules; UI, e-mail and store providers | none | render, compute | none | unit-tested | where used |

### How they interact

A press, a clerk, the Renter's return and Stripe's events all apply what Stripe says of a
page through one function, `applyCheckoutOutcome`; that function settles the page's row,
keeps the payment and puts it on the bond. Money taken back looks for that payment
(`bondPaymentOf`) and so depends on it being recorded first. `handlePaymentEvent` is the one
entrance for events of all three kinds: it asks whether the account is disconnected, reads
Stripe, and then records the event and applies it in one transaction; after events of pages
and direct debits it detaches replaced direct debits, which the nightly tidy-up also does.
Rentals feed the bond (its amount, and the statuses in which it may be paid). Rent, billing,
handover, swap, signing and changes of terms meet in the rental's row, which each locks; the
ledger is what rent writes and billing documents are made of. Photos of a checklist and of a
licence are files, sent through the same requests. Details, signing and payments share the links
table and their codes.

## 2. What is modelled, module by module

A transaction is one step, and so is a call of Stripe or storage; a transaction is two steps
where two of its statements may see different snapshots, or take different locks, and the
difference matters. Between any two steps of a request anything else may happen, and the
request may die. Amounts are small numbers, Stripe's objects and requests are model values,
and the wording of pages, e-mails and the activity log is left out. Time is counted in the
coarsest unit that tells cases apart (an hour of a page, a day of a file, a part of a block
of rent). `PROJECT.json` gives the lines behind each definition.

### `BondPages`: a rental's bond, by Stripe's page or by hand

| In the model | In the code |
|---|---|
| `session`, `amount`, `intent`, `age`, `sent`, `access` | Stripe's Checkout session and its payment intent; the time left of the page's hour; the events to be delivered; whether Stripe still lets us reach the business's account |
| `handed` | pages whose address a Renter was given, so that they can be paid |
| `row`, `payment`, `credits`, `entry`, `reversed`, `handled`, `rentalOpen`, `connected` | `stripe_checkouts.status`, `payments.status`, `bond_movements`, `stripe_events`, the rental's status, `stripe_accounts.disconnected_at` is null |
| `pc`, `found`, `opened`, `seen`, `cents`, `event` | the local variables of each request that is under way |
| `PressFind`, `PressOwing`, `PressReuse`, `PressLimit`, `RetireFind` ... `RecordOutcome`, `PressStart`, `PressSave`, `PressConflict`, `PressExpireOwn` | `startRenterCheckout`, `reusableBondPage`, `isWithinLinkLimit`, `retireOpenBondPage`, `openNewPage` |
| `ClerkFind`, `ClerkRecord`, then `RetireFind` ... | `recordBondReceived`, then `stopBondPageAfterHandEntry` |
| `ReverseEntry`, `RentalEnds` | `reverseBondMovement`; closing or cancelling the rental |
| `VisitFind`, `ReadCheckout`, `RecordOutcome` | `recordReturnFromStripe` |
| `Deliver`, `ReadCheckout`, `HandleEvent` | `handlePaymentEvent` for Checkout events |
| `ApplyCheckoutOutcome` and its parts | `applyCheckoutOutcome`, `settleCheckout`, `recordBondPayment`, `addBondReceived` |
| `MarkDisconnected` | `markDisconnected`, on Stripe's event that the account left |
| `PayPage`, `DebitSettles`, `PageAges`, `AccessEnds` | Stripe, the bank, the clock, the business (external) |
| `StripeRefuses`, `RequestDies` | a call of Stripe that throws because the account left; a dead server, or any other call that throws |

The sums that decide what may still be paid (`Held`, `OnItsWay`, `PayableOnline`) are
operators of the same names as `bondHeldCents`, `bondOnItsWayCents` and
`bondPayableOnlineCents`. A press takes the Renter's customer at Stripe as there: one that
cannot make it ends as a press that died does.

A disconnected account's events are answered "ignored", recorded nowhere and never sent again:
`Deliver` is not taken, which is the same. A press is not offered Stripe (asked together with the
reading of the rental), a return from the page reads nothing, and a hand entry stops no page; a press
already past its check goes on until Stripe refuses it. Other reasons an account cannot take payments
turn a press away before it changes anything, and are left out.

`BondMoney` is the abstract specification: a
payment is made, learnt of, and put on the bond once, exactly when it succeeded, and the
end of every payment is learnt unless the account is taken away first. The refinement is the identity on
`intent`, `payment`, `credits` and `connected`; all else (pages, rows, requests, events, deaths) is
stuttering.

### `MoneyTakenBack`: refunds and disputes

| In the model | In the code |
|---|---|
| `truth`, `sent`, `late`, `answered`, `access`, `paid` | what became of a refund or dispute at Stripe; its events, those past `NOT_READY_WINDOW_MS`, those answered; whether Stripe still lets us read the account; whether the bond payment's money has come in |
| `payment`, `connected`, `entries`, `handled` | the bond payment's row and its status; `stripe_accounts.disconnected_at`; entries by object and kind; `stripe_events` |
| `Deliver`, `ReadEventDetails`, `HandleEvent`, `HandlingFails` | `handlePaymentEvent`: the disconnected account, `readEventDetails`, the transaction with `isAwaitingOwnRecord`, failure |
| `ApplyMoneyTakenBack`, `UndoFailedRefund`, `AddEntryOnce` | the functions of the same names in `stripe-money-back.ts`, and its unique index |
| `EntryRefused` | the trigger `check_bond_payment`: no entry from a payment whose row does not say it succeeded |
| `RecordPayment`, `MarkDisconnected` | `recordBondPayment` (all of it is in `BondPages`); `markDisconnected` |
| `PaymentClears`, `Take`, `GiveBack`, `NewsAges`, `AccessEnds` | Stripe, the bank, the clock (external) |

A bank debit is recorded while it clears, and its row may hear late that it did. Until then the
database refuses the entry of a refund or a dispute: the transaction rolls back, the endpoint answers
500 and Stripe sends the event again, as `HandleEvent` has it.

`Foreign` objects are those of the business's other payments: the account is the business's
own, so its events tell of payments that are not bonds.

### `Mandates`: direct debits

| In the model | In the code |
|---|---|
| `bank`, `attached`, `sent`, `access` | each mandate's status, the payment methods not detached, the events, whether Stripe still lets us reach the account |
| `kept`, `replaced`, `detached`, `handled`, `connected` | `payment_mandates.status`, `end_reason`, `detached_at`; `stripe_events`; `stripe_accounts.disconnected_at` is null |
| `Deliver`, `ReadMandate` | `handlePaymentEvent` up to its transaction; a disconnected account's event is ignored |
| `RecordLock`, `RecordInsert` | `recordMandate`: two steps, for its `FOR UPDATE` locks only the rows it finds |
| `ApplyMandateStatus` | `isAwaitingOwnRecord` and `applyMandateStatus` |
| `Ended`, `OneActive`, `Save` | `endOlderMandates`, the index `payment_mandates_one_active`, the writes or their refusal |
| `VisitFind` | `recordReturnFromStripe` for a page that sets up a direct debit |
| `TidyFind`, `TidyDetach`, `TidyMark` | `detachReplacedMandates`, which skips a disconnected account, and `markDetached` |
| `MarkDisconnected`, `StripeRefuses` | `markDisconnected`; a call of Stripe that throws because the account left |
| `SetUp`, `Start`, `End`, `AccessEnds` | the Renter, the bank and the business (external) |

Mandates are numbered in the order of `setUpAt`. What `RecordLock` locked is held until the
commit (`Free`); the tidy-up that follows an event is one of the `Tidies`.

### `Fleet`: who has which car, and who holds it

| In the model | In the code |
|---|---|
| `rental`, `holds`, `possessions`, `carStatus`, `archived` | `rentals`, `car_holds`, `possessions`, `vehicles` |
| `checklist`, `swap` | the rental's inspection under way; its `car_swaps` row not completed |
| `desk` | what each phone loaded and has not written |
| `CreateDraft`, `CreateBooking`, `BookRental`, `CancelRental`, `ChangeRentalEnd` | `rental-records.ts`, `rental-changes.ts` with `findBookingClash`, `holdCar`, `releaseCarHolds` |
| `StartChecklist`, `CancelChecklist`, `StartSwap`, `CancelSwap` | `handover-records.ts`, `car-swaps.ts` |
| `LoadHandover`, `FinishHandover`; `LoadReturn`, `FinishReturn`; `LoadSwap`, `FinishSwap`; `GiveUp` | `complete-handover.ts`, `complete-return.ts`, `complete-swap.ts`: the view loaded, then one transaction; a refusal keeps nothing |
| `SetCarStatus`, `CancelSale`, `ArchiveCar`, `RestoreCar` | `vehicle-records.ts`, `cost-records.ts` |
| `IsFree`, `IsHoldAllowed`, `IsCarLeft` | the clash looked for, `car_holds_no_overlap`, `possessions_no_overlap` |

The rules of the database are conjuncts of the actions that would break them: such a
transaction rolls back. A return's time is typed, up to `ClockAhead` ahead of the server.
`CarKeys` is the abstract specification: a key is handed out, swapped and given back, to one
rental at a time, and a rental whose car is back never gets another. `KeysNow` maps a car to
a rental by its open possession.

### `Rent`: rent in blocks of a day

| In the model | In the code |
|---|---|
| `booked`, `rates`, `backAt`, `waived`, `lines` | what `readBlockRental` and `loadChargedRentLines` read |
| `waiting`, `signing` | a weekly price proposed; a signing begun earlier |
| `BlockAt` ... `RentLinesToAdd` | the pure functions of `rent-blocks.ts`, by their names |
| `PickRental`, `ChargeBlockRental`, `RunFails` | `rentalsToCharge`, then `lockBlockRental` and `chargeBlockRental`, as of the moment the run began |
| `ReturnCar`, `WaiveDailyRate`, `ReverseLine` | the return typed with its own time, `waiveDailyRate`, `reverseLine` |
| `ProposeRateChange`, `WithdrawChange`, `BeginSigning`, `RecordChangeSigned` | `rental-changes.ts`: a price proposed, withdrawn, signed on a page opened earlier |

A return may be typed up to `ClockAhead` later than the server's clock (`IsReturnTime`) and is kept as
typed, so the last block used may not have begun when a run comes. A run charges the blocks used that have
begun (`PayableBlocks`): until the return's own moment that may be fewer than were used, and from that
moment on it is all of them, which `RentIsRight` says too.

`FairPrice` is the reference: what a block costs said directly, with no period, line or
correction. A week has `DaysPerWeek` blocks; GST follows the amount and is left out.

### `Signing`: papers signed over a link

| In the model | In the code |
|---|---|
| `rental`, `change`, `kind`, `links`, `documents` | `rentals.status`, `rental_changes`, `renter_links`, `issued_documents` |
| `edits` | how often anything a paper shows was edited; `TextOf` is how a paper reads |
| `step`, `page`, `letter`, `withdrawing` | the requests under way: phones, senders, a withdrawal |
| `LoadSigningView`, `SignContract`, `LockRental`, `LockLink`, `RecordSigned`, `SigningDies` | `signContract`, its locks of rental and link in turn, `recordSigned` |
| `FillPaper`, `SendLink`, `StopLink` | `filledFor`, `sendLinkFor`, `cancelChangeLink` |
| `ChangeRentalEnd`, `ProposeRate`, `BeginWithdrawal`, `EndWithdrawal`, `CancelBooking`, `MoveRental`, `EditDetails` | what Users do meanwhile, and the links each of them cancels |
| `BreakDeadlock` | PostgreSQL fails one of two that wait for each other (external) |

### `LinkCodes`: codes of a link

`code`, `codeTries` and `isLocked` are the columns of `renter_links`; `send` keeps what each
request found and set, for `PutCodeBack` compares the row with it. `SendLinkCode`,
`EmailArrives` or `EmailFails`, `SayCodeSent` and `PutCodeBack` are the parts of
`link-visits.ts` a request goes through; `CheckRightCode` and `CheckWrongCode` are a code
typed on any phone. An e-mail may arrive though its provider said it failed. `told`, `made`
and `uses` are history.

### `Files`: sent, confirmed and cleaned up

| In the model | In the code |
|---|---|
| `file`, `turn` | the `files` table, and its rows' order by `updated_at` |
| `incoming`, `bytes` | the store: what the browser sent, and the file's own object |
| `RequestUpload`, `BrowserSends` | `requestUpload`; the browser, again if it likes |
| `FindPendingFile`, `Inspect`, `RefuseUpload`, `MarkRefused`, `Promote`, `RemoveIncoming`, `ClaimConfirmed`, `ConfirmDies` | `confirmUpload`, a step for each call of storage and each transaction |
| `RemoveFile`, `RestoreFile` | `removeCarFile`, `restoreCarFile` (`removed-files.ts`) |
| `FindDueFiles`, `PurgeBytes`, `PurgeIncoming`, `MarkPurged`, `PurgeFails`, `RunDies` | `file-housekeeping.ts`: `FilesPerRun` files, those longest untouched first |

A behaviour is of two files that replace each other, or of a photo and its small copy.
`Stuck` files are those storage never removes. `late` marks files confirmed when they were
already due to go, which the property sets apart (see the observations).

### `Billing`: invoices, credit notes and receipts

| In the model | In the code |
|---|---|
| `ledger`, `rentToCome` | `ledger_lines`; whether rent is still coming, on which one-off charges wait |
| `papers`, `onPaper`, `nextNumber`, `isStarted` | `billing_documents`, `billing_document_lines`, `document_numbering` |
| `issuing`, `toDo` | each issuing request or run; the rentals a catch-up has found |
| `InvoiceLines`, `CreditLines`, `ReceiptLines`, `Plans` | `pendingDocuments` and `nextDocumentFor` |
| `IssuePending`, `CatchUp`, `LookForDocument`, `DraftDocument`, `RecordDocument`, `IssuingFails` | `billing-run.ts`, `billing-documents.ts`: look, then one transaction that locks the rental, plans, takes the number, stores the PDF and records |
| `AddLine` and its users, `ReverseLine`, `RentEnds` | `ledger-records.ts`, `rent-job.ts` |
| `SaveNumbering` | `numbering.ts` |
| `MayCarry` | the trigger `check_billing_document_line` |

The triggers that refuse a repeated or skipped number a second time are left out, so that
`NumbersUsed` is about the code and its row lock. Which of a credit note and a receipt
comes first is left open.

### `Renters`: details links, submissions and retention

`formLink`, `image` and `submission` are a Renter's details links, their files and what was
sent, oldest first; `formVisit` is the link a request has looked up in a transaction before
the one it acts in. Its actions are the functions of `renter-links/details-links.ts`,
`submissions.ts`, `reviews.ts`, `submission-cleanup.ts` and `renters/`: `SendDetailsLink`,
`CancelDetailsLink`, `StartLinkPhotoUpload`, `ConfirmLinkPhoto`, `SubmitDetails`,
`ApproveSubmission`, `SendBackSubmission`, `ArchiveRenter`, `RestoreRenter`, `CleanUp`,
`BinExpiredScans`, `RetireRenter` and so on. `hire` stands for the Renter's newest rental, as
far as retention looks at it.

### `PhoneQueue`: a checklist's changes, kept on the phone

`made` is all that was made on the phone, `queue` what it still keeps, `savedMarks` what it
has heard was saved; `markRows`, `inUse`, `arrived`, `underWay` are the server's. Tabs send
the one queue: `StartRun`, `SendNext`, `AddMark`, `RememberMark`, `StartPhoto`,
`FinishPhoto`, `RemoveSent`, `TabFails`, `RunEnds` are the steps of `queued-changes.ts` and what
it calls on the server. `ForgetEnded` and `ForgetOld` are what the phone wipes.

### Modules for TLC

Components that share no rows are checked in one run: a variable `part` says which of them a
behaviour is of, and the others stay as they began. This explores the sum of their state
spaces, never the product, and each property is about its part.

| Module | Parts |
|---|---|
| `MCBooks` | `MoneyTakenBack`, `Rent`, `Signing`, `Renters` |
| `MCDesk` | `Mandates`, `LinkCodes`, `Files`, and `BondPages` with clerks (`Page`) |
| `MCOffice` | `BondPages`, `Billing`, `PhoneQueue` |
| `MCStripeNews` | `BondPages`, `MoneyTakenBack` (`Back`), `PhoneQueue`, with their fairness |
| `MCMandates` | `Mandates`: two direct debits and the tidy-up, or one and its racing news |
| `MCFleet`, `MCBondPages`, `MCMoneyTakenBack` | one module each, with its symmetry |

## 3. The runs

| Run | Checks | Instance |
|---|---|---|
| `Office` | `OfficeInv`, `RecordedIsTrue`, `HandledIsApplied`, `OneSavedPagePayable`, `RetirementIsTrue`, `PaymentMovesForward`; `NumbersUsed`, `DocumentsAddUp`; `NothingLost` | 2 presses, 2 handlers, 2 pages; 2 rentals of 3 lines in all, a request and a catch-up, one setting of the next number; 2 tabs, a mark and photos, 1 loss, a day: 843,910 states |
| `Desk` | `KeptIsTrue`, `OnlyReplacedDetached`, `EndedStaysEnded`; `CodeUsedOnce`, `CodesWithinWindow`; `BytesMatchRows`; `WithinBond`; `DeskTypeOK` | 2 direct debits, 2 handlers, the tidy-up, 1 death; 2 senders, 4 codes, a window of 2 minutes with 2 codes; 2 files, 1 confirming request, 3 days, 1 death, a file storage never removes; 2 clerks, a press, an event: 2,350,295 states |
| `Books` | `EntriesAreTrue`, `NewsIsBooked`; `RentRight`; `SignedOnce`, `DeadPapersHaveNoLink`, `StoppedIsUnsigned`; `SentTogether`, `RetiredIsBare`; `BooksTypeOK` | 2 handlers, a refund of ours, a dispute of someone else's; 3 blocks, weeks of 2, 2 runs, 1 failure, 1 reversal, a return 3 ahead; 2 phones, 2 changes, 2 links, 1 edit; 2 sides, 2 links, 3 images, 2 submissions: 1,788,629 states |
| `Fleet_keys` | `FleetTypeOK`, `HoldsMatch`, `CarsTruth`, `OneHadIt`, `HistoryKept`, `ImplementsCarKeys` | 2 rentals, 2 cars, 2 phones, moments 0..2: 1,082,939 states |
| `StripeNews` | `PaidReachesBond`, `OpenPageSettles`, `ImplementsBondMoney`; `NewsIsAnswered`; `QueueEmpties` | 1 press, 1 visit, 1 handler, 1 page, 1 death; 2 handlers, a dispute of ours; 1 tab, 1 loss: 47,783 states |
| `Mandates_fair` | `ReplacedIsDetached`, `NewsIsHandled`, `WorkingIsKept` | 2 direct debits, 1 handler and the tidy-up, or 1 direct debit, 2 handlers and a visit; 1 death: 72,270 states |
| `BondPages_twice` | `PressesNeverPayTwice` is violated | 2 presses, 1 handler, 2 pages |
| `BondPages_winner` | `OnlyOneCanBePaid` is violated | 3 presses, 1 handler, 3 pages |
| `MoneyTakenBack_cancelled` | `FailedRefundCancelled` is violated | 2 handlers, a refund |
| `Mandates_old` | `OldKeptUntilNewWorks` is violated | 2 direct debits, 1 handler |
| `Fleet_hold` | `HoldEndsWithRental` is violated | 2 rentals, 2 cars, 1 phone |
| `Billing_credit` | `TakenBackIsInvoiced` is violated | 1 rental, 3 lines, 1 catch-up |

What the properties say:

- **Bond.** `RecordedIsTrue`: a payment is recorded as what became of it at Stripe, and the
  credits are exactly the payments that succeeded. `HandledIsApplied`: an event marked handled
  has left its mark, even though what it told was read before the transaction, or another
  request got there first. `OneSavedPagePayable`: no two pages on record can be paid.
  `RetirementIsTrue`: a page is replaced only once it cannot be paid, and a Renter told "just
  paid" has that payment on record. `PaymentMovesForward`: nothing goes back. `WithinBond`:
  no page asks for less than Stripe takes or more than the bond; clerks at once never take
  more than it. `PaidReachesBond`, `OpenPageSettles`: in the end, unless the account is disconnected first.
- **Money taken back.** `EntriesAreTrue`: no entry says what did not happen.
  `NewsIsBooked`: news of ours that is handled with its payment recorded is on the
  books in that very step. `NewsIsAnswered`: no event is sent for ever, not one whose payment's record
  never comes, nor one refused while the payment waits for the bank.
- **Direct debits.** `KeptIsTrue`: working only if the bank had it so, cancelled only if it
  ended it or a later one replaced it. `EndedStaysEnded`: no order of news brings one back.
  `OnlyReplacedDetached`: only the replaced are cancelled at Stripe, and noted after.
  `ReplacedIsDetached`, `NewsIsHandled`, `WorkingIsKept`: in the end, unless the account is disconnected
  first.
- **Cars.** `HoldsMatch`: a rental under way holds its car, once, and no other rental holds
  one. `CarsTruth`: a car reads rented exactly while someone has it; no archived car is
  booked, held or out. `OneHadIt`: possessions of a car never overlap. `HistoryKept`: an
  ended possession and a rental that is over never change again.
- **Rent.** `RentRight`: whatever was charged, returned, waived, signed and reversed in
  what order, the next run brings the rental to what its blocks have cost so far, the page's next
  rent is the run's, and once a return's own moment has come nothing used is left out.
- **Signing.** `SignedOnce`: a paper is signed once, over the link used for it.
  `DeadPapersHaveNoLink`: no link stays in play for a paper nobody may sign any more.
  `StoppedIsUnsigned`: what is kept as signed was, at that step, open and over its newest link.
- **Links and Renters.** `CodeUsedOnce`: a code lets in one phone. `CodesWithinWindow`: no
  more codes are said to be sent in a window than it has. `SentTogether`: what waits for review
  is one submission with one photo of each side and none left behind. `RetiredIsBare`: of a
  retired Renter nothing is in use or waiting, whatever an open page still sends.
- **Files.** `BytesMatchRows`: a file in use has the bytes that were checked, and nothing is
  left of one said to be gone.
- **Billing.** `NumbersUsed`: a series has no gap and no repeat. `DocumentsAddUp`: a rental
  that needs no more documents has invoices less credit notes that come to its ledger, and each
  credit is on a note of the invoice it corrects.
- **Phone.** `NothingLost`: what was made stays on the phone until it is saved, refused with a
  note, old, or gone with its checklist or mark; a mark has one row. `QueueEmpties`: unless a
  photo's mark was wiped (see the observations), the queue empties.

**Bounds, and why they are enough.** Two of each kind of request are what it takes for one
to overtake another between its reading and its transaction, which is how every
counterexample below goes; two pages, links, papers or direct debits are what it takes for
one to replace another. Three presses are used where one must lose a race, another win it, and
a third open a page next. One death shows what a half-done request leaves (`MaxCrashes`,
`MaxDeaths`, `MaxLost`, `MaxRunFailures` bound them); `Office` and `Books` have none among
the bond's and the refunds' requests, where `StripeNews` has one and the proofs any number. A
bond of 2 with a minimum of 1 makes a half and a whole payable. With two direct debits one is older
and one newer; liveness of the news is checked with one, since with two recorded at once the
database refuses the older one's start, again and again (see the hazards). Three blocks with
weeks of two give a period whole, a part of one, and one after it; two moments after the first
let a booking begin later than now and end before the clock does. In `Desk` the windows are two minutes,
so that codes fall into two of them; three days are what it takes for a file to be asked for, confirmed,
removed, due and gone. Three ledger lines are rent, its credit and that credit's reversal; at
most one rental waits for rent. A return may be `ClockAhead` = 3 parts of a block ahead in `Books`: the code's five minutes may pass into a
block not begun when the grace is nothing, and in whole parts, with a grace of one, it takes three for that to
happen. The two rent runs bear the handlers' names, to share their symmetry. The business may leave in every
run of the bond and of direct debits; bounds keep this small: in `Office` only where one page is ever opened
(`OnePageIfLeft`), in `Mandates_fair` only in its first part, while the newer direct debit works, with no other death
(`LeftWithTwo`: Stripe's refusals end requests at the same steps); the proofs have neither. `RentersHorizon` is 1, so a link and a submission can outlive
their day. `Spec` bounds every counter by a constant named "bound" in its module. Symmetry is used in
safety runs only. Each property has a mutant in `PROJECT.json`: the named change of one definition
makes TLC find it violated under the run's own configuration. `CHECK_DEADLOCK FALSE` is
set throughout: a Renter who is done, with every event answered, is a proper end.

## 4. Fairness

The safety specifications have none: nobody has to press, pay, come back or set anything up,
no bank has to decide, no death has to happen. The live runs assume:

- A request that has begun takes its next step or dies (weak fairness): JavaScript's event
  loop goes on, and calls of Stripe time out, which is a death here.
- Each event not acknowledged is delivered again (strong fairness: handlers may be busy in
  between). Stripe resends for three days, which the models stretch without end; deaths
  are bounded, so an event needs only finitely many tries.
- A page's hour passes (`PageAges`), and news grows an hour old (`NewsAges`).
- `MarkDisconnected`: news that the account is gone is delivered like any other. A call of Stripe that is
  refused for it (`StripeRefuses`) is one way for a request's step to end.
- `PendingPaymentSettles`: while the account is connected, a payment recorded as waiting for the bank is recorded as
  paid once it is, which is what `PaidReachesBond` shows of `BondPages`.
- The nightly tidy-up finds what is left to detach. Its step at Stripe and the marking are
  strongly fair, for a handler may hold the row locked now and again.
- A checklist's page tries its queue again every few seconds, and a run of it goes on
  (`PhoneFairness`, weak).
- The billing catch-up runs every night and goes on; drafting and recording are strongly fair,
  for storage does not always fail (`BillingFairness`, used by `Billing_credit` alone: with all
  that granted, the credit is still never invoiced).

Nothing is fair to the Renter, the bank or the clerks, so every liveness property starts
from something that has happened. In the composed runs (`MCStripeNews`, `MCMandates`)
each fairness condition is that of its module, for the part that is on.

## 5. What is proved

TLAPS checks these for every value of the constants, from the named assumptions alone (the
kinds of request are disjoint, amounts and bounds are natural numbers, the null values are
outside their sets, pages and clerks are finitely many (`FinitelyMany`), a block's grace is
shorter than a block, `KeptDays` is no shorter than `UnfinishedDays` as the code's 30 days and 24
hours have it). In each module `XInvariance` says an inductive invariant holds of every
behaviour: `Init` gives it and every action keeps it, one lemma an action. Why the property
alone is not inductive is what the rest of the invariant says.

- **`BondPagesProofs`**: `Invariance`, and from it `TypeCorrect`,
  `RecordsFollowStripe` (`RecordedIsTrue`), `NoEventLost` (`HandledIsApplied`), `OnePayable`
  (`OneSavedPagePayable`) and the action property `NothingTakenBack`
  (`PaymentMovesForward`). `RecordedIsTrue` is not inductive: a transaction applies a reading
  made before it. What keeps it is that a reading of Stripe is never false about what is final
  (`ReadingIsTrue`) and never older than the news that led to it (`ReadingShowsNews`); that
  rests on what is true at Stripe (`StripeIsTrue`), on the rows following it (`RowsAreTrue`),
  on a page between its opening and its row being one press's own (`JustOpenedIsPrivate`), and
  on what each kind of request may be doing (`RequestsAreTrue`, `StepsOfKind`). The lemma
  `ApplyKeepsRecords` is about the shared transaction and is used by every step that applies a
  reading. A second invariant, `RetirementInv`, gives `RetirementTrue`
  (`RetirementIsTrue`): a press reads the page it found only after Stripe was
  asked to expire it, so the reading shows the page's end, and that end is for good
  (`ClosedStaysClosed`). It is kept request by request: a step changes the part of one
  (`StepOfOneKeeps`), and what others do leaves a request's part true (`BystanderKeeps`).
  Last, `KeepsPromiseOfMoney`: `Spec => Money!Spec`, the safety part of the refinement of
  `BondMoney`. A transaction that applies a reading learns the end or the making of one payment,
  or nothing (`ApplyLearns`); every other step leaves the records of payments alone.
- **`BondPagesProofs`, amounts**: `NeverMoreThanBond` (`WithinBond`). Its invariant `AmountsInv` adds
  that a press past its sums asks for an amount the bond allows (`Priced`), and of clerks that one at a time
  weighs an entry (the rental's lock), that none has an entry before weighing it, and that what was read as held
  is still no less than what hands took in: other steps may add payments, or reverse entries once no clerk
  weighs one. So an entry that fits what was read fits the bond: `EntryAdds` says that it raises
  `HandTotal` by its amount, `ReversalTakes` that a reversal lowers it by the entry's.
- **`Sums`**: what those proofs and the next need of the community modules' `SumFunctionOnSet`, for any
  finite set of whole numbers: it takes one member at a time, in any order (`SumTakes`), is the same for
  functions that agree (`SumSame`), is no less than a member when none is negative (`SumNotNegative`), adds
  over disjoint sets (`SumUnion`) and over groups of them (`SumOfGroups`). The function is defined by
  recursion over sets. No induction theorem with an operator as parameter can be used here, so each
  lemma takes a smallest counterexample: a set of least size among the subsets for which it fails
  (`SmallestSet`), which `NatLessThanWellFounded` gives.
- **`LedgerProofs`, rent**: `RentAlwaysRight` (`RentIsRight`), which `RunsAlwaysRight` in `BooksProofs`
  restates for the formula of the run (`RentRight`). The invariant, `RentInv`, says little: the lines of a
  period are kept at its first block, which has begun, its rent before its corrections
  (`LinesAreOfPeriods`); the first rate is from block 0 (`FirstRateKept`); no run is later than now, and no
  return more than `ClockAhead` later. The rest is arithmetic, for any length of block, grace, week, price and booking. The code's
  rounded division counts the blocks a stretch used just as counting them one by one does
  (`UsedFullyIsUsed`); the price of a block is what its week's price has come to by the end of it less
  what it had come to before (`FairIsBlockCents`); blocks of one period agree on it (`Periods`); so
  the stretches owed for the periods that have begun are disjoint and together are the blocks that cost
  anything by now (`OwedWith`, `OwedArePayable`); a block used has begun by the return's own moment
  (`AllUsedArePayable`). A run brings each period nobody
  changed by hand to the sum of its stretch (`RunBringsPeriod`), and by `SumOfGroups` the rental to the sum of
  all (`RunBringsAll`). Until the car is back, the page names the first period not charged, which is the
  one a run would charge first (`PageNames`, `PageIsRight`).
- **`LedgerProofs`, money taken back**: `BooksAreTrue` (`EntriesAreTrue`) and
  `NewsBookedOnce` (`NewsIsBooked`). The invariant adds that news is true for good
  (`NewsIsTrue`) and readings are (`ReadingsAreTrue`); `ApplyKeepsBooks` is the lemma about
  `applyMoneyTakenBack`.
- **`MandatesProofs`**: `RowsAreTrue` (`KeptIsTrue`), `DetachedWasReplaced`
  (`OnlyReplacedDetached`) and `NoneComesBack` (`EndedStaysEnded`). `EndedStaysEnded` needs
  that a change is never told of before the bank's checks are over (`NewsIsTrue`), and a
  status, once read, is not undone (`RequestsAreTrue`): so no stale reading puts a working
  direct debit back to waiting. `SaveKeepsRows` is the lemma both writers share.
- **`FleetProofs`**: `FleetTypes`, `HoldsAlwaysMatch`, `CarsReadTrue`, `OneAlwaysHadIt`, the
  action property `HistoryIsKept`, and the refinement `FleetImplementsCarKeys`. The invariant
  adds that a rental's stage, its open possession, its checklist and its swap agree
  (`StagesAgree`), that nothing happened before a rental's handover (`NothingBefore`), and that
  an open checklist a phone loaded is still the rental's (`PhonesAgree`), which is what a stale
  view may be trusted for: the car and the status, never the end (that is `Fleet_hold`). For
  the refinement, `KeysAre` says the keys are the cars of the rentals that are active, so a
  handover, a swap and a return are one step of `CarKeys` each, and nothing else moves a key.
- **`BooksProofs`, signing**: `PapersSignedOnce`, `DeadPapersNeverHaveALink` and the action property
  `StoppedStaysUnsigned`. One signing at a time is past the rental's lock (`OneSigns`), the
  link it locked next stays in play until it is through (`LinkHeld`), and a paper has one link in
  play, its newest (`NewestOnly`): so the check made before the PDF, repeated under the locks,
  is still true when the signing is kept.
- **`BooksProofs`, Renters**: `AlwaysSentTogether` and `RetiredStaysBare`. A photo is hooked only to a
  submission of its own link (`PhotosBelong`), a side has one photo in use for a link
  (`UnsentOnce`) and one scan (`ScannedOnce`), and of a retired Renter at most an upload nobody
  can confirm is left (`StaysBare`).
- **`DeskProofs`, codes of a link**: `OneUsePerCode` and `HourHasItsCodes`
  (`CodesWithinWindow`). For the first, a code that may still be used is in one place: the
  link's row, or what one send found there (`CodeIsInOnePlace`). For the second, sends overlap,
  and one that fails puts back the count it found; each code has one row (`RowsDiffer`), and the
  count in a row is above those of the codes it counts (`CountsGoUp`). So the counts tell the
  codes of a window apart, and there are no more codes than counts.
- **`DeskProofs`, files**: `BytesAlwaysMatch`. What the nightly run found stays due to go, or is
  gone (`FoundRight`); what a request moved to a file's own address stays there until the row is
  claimed or due (`ConfirmRight`); a small copy goes and comes back with its photo
  (`CopiesGoTogether`); and a removed file is gone for good only after it was past being brought
  back.
- **`OfficeProofs`, the phone's queue**: `NothingIsLost`. A tab takes a change off the phone only
  once it is settled (`Settled`: saved, refused, old, or gone with its checklist or mark), and
  settled it stays (`SettledStays`); a photo in hand is of a mark that has its row, and the phone
  never thinks a mark saved that is not (`SavedHaveRows`).
- **`OfficeProofs`, billing documents**: `NumbersRunOn` and `DocumentsAlwaysAddUp`. A plan made
  under the rental's lock stays right until it is recorded (`PlannedRight`), the number taken
  is the series' next (`IssuingRight`), for each rental and each series is one transaction's
  (`OneAtATime`); a line is taken back once (`ReversedOnce`) and each document carries its kind
  of lines (`PaperRight`). From that, with nothing pending, a rental's invoiced lines are its
  standing charges and those taken back once invoiced, and the lines of its notes the standing
  credits and the takings back of charges, one for one: so their numbers come to the ledger's, for ledgers of any length.

`BooksProofs`, `DeskProofs` and `OfficeProofs` also prove what `MCBooks`, `MCDesk` and `MCOffice` put
together (`BooksTypesHold`, `DeskTypesHold`, `OfficeHolds`, `RunsAlwaysRight`): a step of such a module
is a step of one part and leaves the others as they are, so what is proved of a part holds there.

While the proofs were written TLC was given each inductive invariant on instances like those
of the runs; `OfficeInv` keeps that of `BondPages` in its run.

**Only model-checked**: everything under fairness (`PaidReachesBond`, `OpenPageSettles`,
`NewsIsAnswered`, `ReplacedIsDetached`, `NewsIsHandled`, `WorkingIsKept`, `QueueEmpties`) and
the fairness of `ImplementsBondMoney`, for the prover has no `ENABLED`. Every invariant and every action
property of the passing runs is proved. `WithinBond` is proved of `BondPages` (`NeverMoreThanBond`) and,
through `MCDesk`'s instance of it, of the composition (`ClerksNeverTakeMore`).

## 6. Findings and observations

Each finding has a run whose counterexample TLC prints.

1. `BondPages_twice`: `renter-checkout.ts:370` says two presses can't both pay. A press works
   out what is owing at its start (line 366). If the page it means to replace is paid and
   settled by Stripe's message before `retireOpenBondPage` looks, that finds nothing open, and the
   press opens a page for the whole bond again. The bond is then paid twice.
2. `BondPages_winner`: `renter-checkout.ts:288` says the page that loses the race is expired and
   "only one can ever be paid". If the winner is settled between the refused insert and the
   next statement, no open page is found and the loser's page is handed out. It has no row, so nothing can
   find or expire it later, beside a page opened next. A payment on it is still put on the bond.
3. `MoneyTakenBack_cancelled`: `stripe-money-back.ts:97` says a failed refund's entry is
   cancelled out. A handler that read the refund before it failed may book it after the news
   of the failure was handled and found nothing to cancel; no news is left to mend it.
4. `Mandates_old`: `renter-payment-records.ts:154` says a Renter whose new bank account fails
   its checks keeps the old direct debit. One told of late is taken as overtaken by any later
   one on record, whether or not that one works, and the tidy-up then cancels it at Stripe.
5. `Fleet_hold`: `rental-changes.ts:181` says a rental, its hold and the change of its end move
   together. A handover before the booked start writes the hold with the end its phone loaded
   (`complete-handover.ts:299`); an end changed in between is put back on the hold, and the
   car can be booked for days it is still out.
6. `Billing_credit`: `packages/core/src/billing.ts:179` says taking back a credit that is on a
   credit note goes on an invoice at once. The database's trigger lets an invoice carry charges
   alone, so that invoice is refused each time, nothing more is issued for the rental, and the
   nightly catch-up stops there with the rentals it had left.

What the models reach, or reading for them showed, and no comment of the code denies:

- **Cars.** A return typed minutes ahead of the clock ends a possession in the future; within
  those minutes the next handover of the car is refused (`OneHadIt` is about this). The rental
  status "closed" is never set. Two lock orders may meet: a handover and a cancelled booking; a
  withdrawal and a signing. PostgreSQL fails one.
- **Rent.** A return typed minutes ahead is kept as typed, though `vehicle-return.ts:7` says it is taken as now:
  with no grace, the charge made at the return may leave out a last block that begins in those minutes, and the
  next run adds it. A return typed more than sixty days back is never corrected (`Lookback`); a waiver in
  the last minute of that time may come after the last run that looks.
- **Disconnected accounts.** Nothing Stripe tells of one is kept, and Stripe does not tell it again: a page open
  at the time stays open on record, a debit that was clearing stays on its way and is taken off what may be paid
  by hand or online, and what was replaced stays attached.
- **Direct debits.** Two recorded at once leave the older waiting beside the newer active; news that
  the older works is refused by `payment_mandates_one_active` each time Stripe sends it.
- **Signing.** A paper's fingerprint is checked before its PDF is made, not in the transaction
  that keeps it, so a detail edited meanwhile is signed as it was.
- **Codes.** Two sends that overlap and both fail may put back a code whose own e-mail failed.
- **Files.** A file confirmed a day after it was asked for, while the clean-up has it in hand, may
  be in use without its bytes. Bytes the browser sends again after a refusal are never cleaned up. A
  small copy confirmed late and purged stays removed when its photo is restored.
- **Renters.** The photos of details sent back stay with the old link. A clean-up and an
  approval may lock in opposite orders. A page opened before its Renter was retired can still
  ask for one upload, which nobody can confirm.
- **Phone.** A photo whose mark was wiped from the phone unsent holds up the queue until it is a
  week old; a mark of a checklist ended elsewhere does until the rental's page is opened. Two
  tabs' retakes may let the older photo arrive last.
- **Not modelled, seen in reading.** A slow refresh of a Stripe account's status is saved over a later
  one (`payment-accounts.ts:71`, `289`). Overlapping runs may tell Stripe a Renter's
  older details last (`stripe-tidy-up.ts:85`).

## 7. What is not modelled, and the plan

Left out for good: rendering, forms and parsing of input; searches, lists and exports (reads
only); the interface package; e-mail, storage and address services; the stand-ins for tests;
row-level security (a model has one business); the activity log. Bookkeeping of one row in one
transaction (cars, costs, damage, settings, admin site) has no interleaving worth a
module. The data of a contract's paper is out of a model's reach. Sign-in and its lockout are
left to their tests.

Left out inside a modelled component: a billing document's e-mail, PDF and tax marking, the catch-up's
sixty days and fifty documents a run; the marks, photos and odometer of a checklist in `Fleet`; the
dates a Renter's retention counts from; GST of rent; days of notice of a change of terms.

Hazards with no property yet, each with its reason in `PROJECT.json`: the two reads of one transaction
in `bond-account.ts:101`; the refused direct debit (`schema/payments.ts:110`); the fingerprint
checked early (`signing.ts:434`); the status of a Stripe account
(`payment-accounts.ts:77`); customers at Stripe (`renter-checkout.ts:157`, `stripe-tidy-up.ts:88`).

What is planned, in order:

| Next | Aim |
|---|---|
| `RenterCustomers`: `customerFor`, `applyRenterDetails`, `syncRenterCustomers` | one customer a Renter; when the row says told, Stripe has the newest details |
| `StripeAccount`: `saveStatus`, `refreshPaymentAccount`, `markDisconnected` | once disconnected stays so; the last status read wins |

## 8. Working on it

```
tlc -workers 2 -config Office.cfg MCOffice
tlc -workers 2 -config BondPages_twice.cfg MCBondPages
tlapm OfficeProofs.tla
```

A run's module and configuration are in `PROJECT.json` under `runs`. The proof modules:

| Module | Proofs about |
|---|---|
| `Sums` | the community modules' sums |
| `BondPagesProofs`, `MandatesProofs`, `FleetProofs` | the module it is named for (`FleetProofs`: `CarKeys` too) |
| `LedgerProofs` | `MoneyTakenBack`, `Rent` |
| `BooksProofs` | `Signing`, `Renters`, and the parts of `MCBooks` together |
| `DeskProofs` | `LinkCodes`, `Files`, and the parts of `MCDesk` together |
| `OfficeProofs` | `PhoneQueue`, `Billing`, and the parts of `MCOffice` together |

Operators whose comment starts with "Mutant:" are not part of the
model: each is a plausible bug that stands in for the definition after it when the properties
themselves are tested.
