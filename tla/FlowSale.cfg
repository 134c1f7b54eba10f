\* Menus, courses, support, the discount and the prompts.
SPECIFICATION Spec
CONSTANTS
    Texts <- SaleTexts
    Tapped <- SaleTaps
    Images = TRUE
    OfferLive = TRUE
    Threshold = 3
    MAX_ATTEMPTS = 0
    MaxLeads = 1
INVARIANTS SupportIsSupport CourseInScope
PROPERTIES NoSecondPrompt
CONSTRAINT BookingsLeft
