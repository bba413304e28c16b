SPECIFICATION Spec
CONSTANTS
  PerPage = 2
  MaxPages = 2
  MaxViews = 2
  QueueCap = 1
  Dashboards <- MCDashboards
  Live <- MCLive
  Values = {"on"}
INVARIANT TypeOK MenuTrue BoxesTrue RowsTrue PopupTrue
PROPERTY LoadsTheView
