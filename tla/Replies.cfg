\* The advisor's lists: a briefing and a tick that write over each other, a
\* state file that is torn or cannot be read or written, deaths of the tick,
\* lists that expire and are printed again.  Drafts: two replies, a briefing
\* and a suggestion that draft, a press and an answer that send.
SPECIFICATION RepliesSpec
CONSTANTS
  c1 = c1
  m1 = m1
  m2 = m2
  b1 = b1
  Codes <- OneList
  Messages <- TwoMessages
  About <- TwoToOneList
  Briefings <- OneBriefing
  NoCode = NoCode
  BatchDays = 1
  LastDay = 2
  MaxCrashes = 1
  MaxLosses = 1
  Replies = {"to Ada", "to Ben"}
  Writers = {"briefing"}
  Tickets = {"ticket"}
  Presses = {"press"}
  Answers = {"answer"}
  ReplyOf <- TheReply
  MaxDrafts = 3
  MaxTrouble = 1
  None = None
INVARIANTS
  ListenedFor
  ActedOnce
  GoesOnce
PROPERTIES
  AnswerHeard
