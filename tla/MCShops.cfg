SPECIFICATION Spec
CONSTANTS
  amina = amina
  NoOne = NoOne
  Phones = {amina}
  Messages = {m1, m2}
  Rest = {r1, r2}
  Alerts = {a1}
  Phone <- MCPhone
INVARIANTS TypeOK OneShop LocaleWasShops EveryReplyRenders AlertFindsShop
SYMMETRY Symmetry
